---- MODULE Spec2Model ----
(***************************************************************************)
(* A model of py_tuya_ble: the datapoint collection (TuyaBLEDataPoints),   *)
(* the device facade (TuyaBLEDevice), its connect / disconnect procedure,  *)
(* the request/response correlator and the inbound dispatcher.             *)
(*                                                                         *)
(* The library runs on one asyncio event loop.  A coroutine runs without   *)
(* interruption until it suspends: at a transport call (connect,           *)
(* start_notify, stop_notify, disconnect, write_gatt_char), at             *)
(* asyncio.wait_for on a response future, or at the acquisition of an      *)
(* asyncio.Lock that is held or has waiters.  Acquiring a free lock does   *)
(* not suspend.  Every action below is one such uninterrupted run of one   *)
(* task (or one callback of the event loop), so a state of the model is a  *)
(* state in which every task is suspended or finished.                     *)
(***************************************************************************)
EXTENDS Integers, Sequences, FiniteSets, TLC

(***************************************************************************)
(* Bounds of the model.                                                    *)
(***************************************************************************)
\* Outbound messages (sequence numbers allocated) in one behaviour.
MaxMsgs == 4
\* Nesting depth of begin_update.
MaxDepth == 2
\* Public calls that reach the device in one behaviour (a set_value inside a
\* batch and an end_update that does not flush only edit the batch state).
MaxCalls == 3
\* Inbound messages decoded in one behaviour.
MaxInbound == 3
\* Callback registrations in one behaviour.
MaxRegs == 2
\* Public calls in one behaviour of the fair specification.
LiveCalls == 2
\* The longest encrypted buffer the device fragments.
MaxBufLen == 130

\* Tasks that call the public API, and tasks created by asyncio.create_task
\* for the automatic replies.
UserTasks == {"u1", "u2"}
ReplyTasks == {"r1"}
Tasks == UserTasks \cup ReplyTasks

(***************************************************************************)
(* Program constants.                                                      *)
(***************************************************************************)
GATT_MTU == 20

FUN_SENDER_DEVICE_INFO == 0
FUN_SENDER_PAIR == 1
FUN_SENDER_DPS == 2
FUN_SENDER_DEVICE_STATUS == 3
FUN_SENDER_UNBIND == 5
FUN_RECEIVE_DP == 32769
FUN_RECEIVE_TIME_DP == 32771
FUN_RECEIVE_SIGN_DP == 32772
FUN_RECEIVE_SIGN_TIME_DP == 32773
FUN_RECEIVE_TIME1_REQ == 32785
FUN_RECEIVE_TIME2_REQ == 32786

\* Every value of the enumeration TuyaBLECode.
TuyaBLECode ==
    {0, 1, 2, 3, 5, 6, 12, 13, 14, 15, 16, 39,
     32769, 32771, 32772, 32773, 32774, 32775, 32785, 32786}

DT_RAW == 0
DT_BOOL == 1
DT_VALUE == 2
DT_STRING == 3
DT_ENUM == 4
DT_BITMAP == 5

(***************************************************************************)
(* Helpers: Python dictionaries, lists and struct.pack.                    *)
(***************************************************************************)
EmptyMap == [k \in {} |-> 0]

MapPut(f, k, v) == [x \in (DOMAIN f) \cup {k} |-> IF x = k THEN v ELSE f[x]]

MapDel(f, k) == [x \in (DOMAIN f) \ {k} |-> f[x]]

\* list.remove(x) followed by nothing else: the list without its first x.
RECURSIVE ListRemove(_, _)
ListRemove(l, x) ==
    IF l = <<>> THEN <<>>
    ELSE IF Head(l) = x THEN Tail(l)
    ELSE <<Head(l)>> \o ListRemove(Tail(l), x)

InList(l, x) == \E i \in 1..Len(l) : l[i] = x

\* b[:n]
Prefix(b, n) == SubSeq(b, 1, IF Len(b) < n THEN Len(b) ELSE n)

RECURSIVE Pow(_, _)
Pow(b, e) == IF e = 0 THEN 1 ELSE b * Pow(b, e - 1)

\* The w low bytes of n, most significant first (struct.pack ">B", ">H", ">I").
RECURSIVE BigEndian(_, _)
BigEndian(n, w) ==
    IF w = 0 THEN <<>> ELSE BigEndian(n \div 256, w - 1) \o <<n % 256>>

\* 2^(8w-1) - 1, the largest signed value of w bytes (w <= 4: the integers
\* of the model are those of 32 bits).
MaxSigned(w) == (Pow(2, 8 * w - 2) - 1) * 2 + 1

\* struct.pack(">i", n): four bytes, two's complement.
PackInt32(n) ==
    IF n >= 0 THEN BigEndian(n, 4)
    ELSE LET low == BigEndian((n + MaxSigned(4)) + 1, 4)
         IN <<low[1] + 128>> \o Tail(low)

RECURSIVE Zeros(_)
Zeros(n) == IF n <= 0 THEN <<>> ELSE <<0>> \o Zeros(n - 1)

(***************************************************************************)
(* Python values held by a datapoint: k is the Python type, v its content  *)
(* (0/1 for a bool, an integer for an int, a sequence of bytes for bytes   *)
(* and str, 0 for None).                                                   *)
(***************************************************************************)
PyNone == [k |-> "none", v |-> 0]
PyBool(b) == [k |-> "bool", v |-> IF b THEN 1 ELSE 0]
PyInt(n) == [k |-> "int", v |-> n]
PyBytes(b) == [k |-> "bytes", v |-> b]
PyStr(b) == [k |-> "str", v |-> b]

IsNum(x) == x.k \in {"bool", "int"}

\* Python's ==: True == 1, bytes and str never equal, None equals only None.
PyEq(a, b) ==
    IF IsNum(a) /\ IsNum(b) THEN a.v = b.v
    ELSE IF a.k = b.k /\ a.k \in {"bytes", "str"} THEN a.v = b.v
    ELSE a.k = "none" /\ b.k = "none"

\* Python's truth value.
PyTruth(x) ==
    CASE IsNum(x) -> x.v # 0
      [] x.k \in {"bytes", "str"} -> Len(x.v) > 0
      [] OTHER -> FALSE

(***************************************************************************)
(* TuyaBLEDataPoint.  A datapoint is a record of its fields.               *)
(***************************************************************************)
\* TuyaBLEDataPoint._update_from_device
DpUpdateFromDevice(dp, timestamp, flags, type, value) ==
    [type |-> type,
     value |-> value,
     changed_by_device |-> ~PyEq(dp.value, value),
     timestamp |-> timestamp,
     flags |-> flags]

\* TuyaBLEDataPoint.__init__
DpInit(timestamp, flags, type, value) ==
    DpUpdateFromDevice(
        [type |-> type, value |-> value, changed_by_device |-> FALSE,
         timestamp |-> timestamp, flags |-> flags],
        timestamp, flags, type, value)

\* TuyaBLEDataPoint._get_value: err is TRUE where struct.pack raises (a
\* negative ENUM; the other overflows need integers beyond 32 bits).
GetValue(dp) ==
    CASE dp.type \in {DT_RAW, DT_BITMAP} -> [err |-> FALSE, b |-> dp.value.v]
      [] dp.type = DT_BOOL ->
            [err |-> FALSE, b |-> <<IF PyTruth(dp.value) THEN 1 ELSE 0>>]
      [] dp.type = DT_VALUE -> [err |-> FALSE, b |-> PackInt32(dp.value.v)]
      [] dp.type = DT_ENUM ->
            IF dp.value.v > 65535
            THEN [err |-> FALSE, b |-> BigEndian(dp.value.v, 4)]
            ELSE IF dp.value.v > 255
            THEN [err |-> FALSE, b |-> BigEndian(dp.value.v, 2)]
            ELSE IF dp.value.v < 0
            THEN [err |-> TRUE, b |-> <<>>]
            ELSE [err |-> FALSE, b |-> BigEndian(dp.value.v, 1)]
      [] OTHER -> [err |-> FALSE, b |-> dp.value.v]

\* A variant of the coercion that accepts a negative ENUM.
SetCoerceUnchecked(type, value) ==
    CASE type \in {DT_RAW, DT_BITMAP} -> [err |-> FALSE, value |-> value]
      [] type = DT_BOOL -> [err |-> FALSE, value |-> PyBool(PyTruth(value))]
      [] type \in {DT_VALUE, DT_ENUM} -> [err |-> FALSE, value |-> PyInt(value.v)]
      [] OTHER -> [err |-> FALSE, value |-> value]

\* The coercion at the head of TuyaBLEDataPoint.set_value (value is a bool
\* or an int for the numeric types, bytes for RAW/BITMAP, str for STRING).
SetCoerce(type, value) ==
    CASE type \in {DT_RAW, DT_BITMAP} -> [err |-> FALSE, value |-> value]
      [] type = DT_BOOL -> [err |-> FALSE, value |-> PyBool(PyTruth(value))]
      [] type = DT_VALUE -> [err |-> FALSE, value |-> PyInt(value.v)]
      [] type = DT_ENUM ->
            IF value.v >= 0
            THEN [err |-> FALSE, value |-> PyInt(value.v)]
            ELSE [err |-> TRUE, value |-> value]
      [] OTHER -> [err |-> FALSE, value |-> value]

(***************************************************************************)
(* TuyaBLEDevice._parse_datapoints_v3, on the bytes of a message body.     *)
(* pos counts from 0 as in the source; data[pos] of the source is          *)
(* data[pos + 1] here.                                                     *)
(***************************************************************************)
Slice(data, from, to) == SubSeq(data, from + 1, to)

RECURSIVE FromBytesBig(_)
FromBytesBig(b) ==
    IF b = <<>> THEN 0 ELSE FromBytesBig(SubSeq(b, 1, Len(b) - 1)) * 256 + b[Len(b)]

\* int.from_bytes(b, "big", signed=True)
FromBytesSigned(b) ==
    IF b = <<>> THEN 0
    ELSE IF b[1] >= 128
    THEN (FromBytesBig(<<b[1] - 128>> \o Tail(b)) - MaxSigned(Len(b))) - 1
    ELSE FromBytesBig(b)

DecodeValue(type, raw_value) ==
    CASE type \in {DT_RAW, DT_BITMAP} -> PyBytes(raw_value)
      [] type = DT_BOOL -> PyBool(FromBytesBig(raw_value) # 0)
      [] type \in {DT_VALUE, DT_ENUM} -> PyInt(FromBytesSigned(raw_value))
      [] OTHER -> PyStr(raw_value)

\* TuyaBLEDataPoints._update_from_device
DpsUpdateFromDevice(datapoints, dp_id, timestamp, flags, type, value) ==
    IF dp_id \in DOMAIN datapoints
    THEN MapPut(datapoints, dp_id,
                DpUpdateFromDevice(datapoints[dp_id], timestamp, flags, type, value))
    ELSE MapPut(datapoints, dp_id, DpInit(timestamp, flags, type, value))

\* The loop of _parse_datapoints_v3: the collection after the loop, the ids
\* updated (in payload order) and the error that ended it, if any.  The
\* datapoints parsed before an error stay updated.
RECURSIVE ParseLoop(_, _, _, _, _, _)
ParseLoop(datapoints, list, timestamp, flags, data, pos) ==
    IF Len(data) - pos >= 4
    THEN LET id == data[pos + 1]
             type == data[pos + 2]
             data_len == data[pos + 3]
             next_pos == pos + 3 + data_len
         IN IF type > DT_BITMAP
            THEN [err |-> "FormatError", datapoints |-> datapoints, list |-> list]
            ELSE IF next_pos > Len(data)
            THEN [err |-> "LengthError", datapoints |-> datapoints, list |-> list]
            ELSE ParseLoop(
                     DpsUpdateFromDevice(datapoints, id, timestamp, flags, type,
                         DecodeValue(type, Slice(data, pos + 3, next_pos))),
                     Append(list, id), timestamp, flags, data, next_pos)
    ELSE [err |-> "none", datapoints |-> datapoints, list |-> list]

ParseDatapointsV3(datapoints, timestamp, flags, data, start_pos) ==
    ParseLoop(datapoints, <<>>, timestamp, flags, data, start_pos)

(***************************************************************************)
(* Keys and credentials.  MD5 is modelled as an injective tagging of its   *)
(* input; a key that is None in the source is NoKey.                       *)
(***************************************************************************)
NoKey == <<>>

MD5(b) == <<"md5", b>>

\* The credentials the manager returns: uuid (16 bytes), local_key (its
\* first 6 bytes are used), device_id (22 bytes).
Credentials ==
    [uuid |-> <<48, 49, 50, 51, 52, 53, 54, 55, 56, 57, 97, 98, 99, 100, 101, 102>>,
     local_key |-> <<97, 98, 99, 100, 101, 102, 103, 104>>,
     device_id |-> <<98, 102, 48, 49, 50, 51, 52, 53, 54, 55, 56, 57,
                     48, 49, 50, 51, 52, 53, 54, 55, 56, 57>>]

\* The readings of the local clock used by the time replies: the decimal
\* digits of int(time.time_ns() / 1000000) and time.timezone.
Clock ==
    [ms_digits |-> <<1, 7, 0, 0, 0, 0, 0, 0, 0, 0, 0, 0, 0>>,
     timezone |-> -3600,
     now |-> 1700000000]

(***************************************************************************)
(* TuyaBLEDevice._pack_int and the packet count of _build_packets.         *)
(***************************************************************************)
RECURSIVE PackInt(_)
PackInt(value) ==
    IF value \div 128 # 0
    THEN <<(value % 128) + 128>> \o PackInt(value \div 128)
    ELSE <<value % 128>>

\* len(raw) after the CRC is appended and the zero padding added.
PaddedLen(n) == IF n % 16 = 0 THEN n ELSE n + (16 - (n % 16))

\* len(encrypted): security flag, iv, ciphertext of header, data and CRC.
EncryptedLen(data) == 1 + 16 + PaddedLen(12 + Len(data) + 2)

\* The loop of _build_packets: the number of payload bytes of each packet.
RECURSIVE SplitLoop(_, _, _)
SplitLoop(length, pos, packet_num) ==
    IF pos < length
    THEN LET header == Len(PackInt(packet_num))
                       + (IF packet_num = 0 THEN Len(PackInt(length)) + 1 ELSE 0)
             rest == length - pos
             part == IF rest < GATT_MTU - header THEN rest ELSE GATT_MTU - header
         IN <<part>> \o SplitLoop(length, pos + part, packet_num + 1)
    ELSE <<>>

\* TuyaBLEDevice._build_packets: the message as the codec sees it and the
\* payload sizes of its packets.  key is the key it is encrypted under.
BuildPackets(seq_num, code, data, response_to, key, security_flag) ==
    [seq |-> seq_num, code |-> code, rto |-> response_to, body |-> data,
     key |-> key, flag |-> security_flag,
     parts |-> SplitLoop(EncryptedLen(data), 0, 0)]

\* A variant of the packet header that leaves the protocol version out.
PacketHeaderNoVersion(packet_num, length, version) ==
    PackInt(packet_num) \o (IF packet_num = 0 THEN PackInt(length) ELSE <<>>)

\* The head of a packet in the loop of _build_packets: the packet number
\* and, in packet 0, the total length and the protocol version byte.
PacketHeader(packet_num, length, version) ==
    PackInt(packet_num)
    \o (IF packet_num = 0 THEN PackInt(length) \o <<version * 16>> ELSE <<>>)

\* A variant of the slice that does not count the header.
DataPartEndNoHeader(pos, header, length) ==
    IF pos + GATT_MTU < length THEN pos + GATT_MTU ELSE length

\* Where encrypted[pos:pos + GATT_MTU - len(packet)] ends.
DataPartEnd(pos, header, length) ==
    IF pos + GATT_MTU - header < length THEN pos + GATT_MTU - header ELSE length

\* data_part of one pass of the loop of _build_packets.
DataPart(encrypted, pos, packet_num, version) ==
    SubSeq(encrypted, pos + 1,
           DataPartEnd(pos, Len(PacketHeader(packet_num, Len(encrypted), version)),
                       Len(encrypted)))

\* The loop of _build_packets on the bytes of encrypted: the packets.
RECURSIVE FragmentLoop(_, _, _, _)
FragmentLoop(encrypted, pos, packet_num, version) ==
    IF pos < Len(encrypted)
    THEN LET packet == PacketHeader(packet_num, Len(encrypted), version)
             data_part == DataPart(encrypted, pos, packet_num, version)
         IN <<packet \o data_part>>
            \o FragmentLoop(encrypted, pos + Len(data_part), packet_num + 1,
                            version)
    ELSE <<>>

Fragment(encrypted, version) == FragmentLoop(encrypted, 0, 0, version)

\* The loop of _unpack_int from offset on.  A fifth byte always ends in
\* TuyaBLEDataFormatError: the loop leaves with offset 5, or the data ends.
RECURSIVE UnpackLoop(_, _, _, _)
UnpackLoop(data, start_pos, offset, result) ==
    LET pos == start_pos + offset
    IN IF pos >= Len(data) \/ offset = 4
       THEN [err |-> "FormatError", result |-> 0, pos |-> pos]
       ELSE LET curr_byte == data[pos + 1]
                r == result + (curr_byte % 128) * Pow(128, offset)
            IN IF curr_byte < 128
               THEN [err |-> "none", result |-> r, pos |-> pos + 1]
               ELSE UnpackLoop(data, start_pos, offset + 1, r)

\* TuyaBLEDevice._unpack_int
UnpackInt(data, start_pos) == UnpackLoop(data, start_pos, 0, 0)

\* TuyaBLEDevice._build_pairing_request
BuildPairingRequest(device_info, local_key) ==
    LET result == IF device_info = <<>> THEN <<>>
                  ELSE device_info[1].uuid \o local_key \o device_info[1].device_id
    IN result \o Zeros(44 - Len(result))

(***************************************************************************)
(* The state.                                                              *)
(*                                                                         *)
(* Fields of TuyaBLEDevice: device_info (<<>> for None), local_key,        *)
(* login_key, session_key, protocol_version, client (0 for None, else the  *)
(* number of the BleakClient object), expected_disconnect,                 *)
(* current_seq_num, is_paired, pending (_input_expected_responses: seq_num *)
(* -> future), operation_lock and connect_lock (the owner at the head, the *)
(* waiters behind it in arrival order: asyncio.Lock is fair).              *)
(* Fields of TuyaBLEDataPoints: datapoints (id -> datapoint),              *)
(* update_started, updated_datapoints.                                     *)
(* The transport: link (the BleakClient object that is connected, 0 for    *)
(* none), notify (the object whose notification subscription is active),   *)
(* clients (BleakClient objects created so far).                           *)
(* The event loop: task (each task's position and locals), fut (the        *)
(* response futures, named by the index in sent of their message).         *)
(* History: sent (every message given a sequence number, in allocation     *)
(* order), wire (the packets written to the write characteristic, in       *)
(* order), returned (the public call that returned last: its task, op,     *)
(* ids, the last message m it sent (0: none), and how it ended: ret is     *)
(* "ok" or the exception raised, retcode the code of a device error),      *)
(* calls and inbound (counters for the bounds), connected_fired and        *)
(* disconnected_fired (how many times _fire_connected_callbacks and        *)
(* _fire_disconnected_callbacks have run).                                 *)
(* The reassembler: input_buffer, input_expected_packet_num and            *)
(* input_expected_length (fields of TuyaBLEDevice), feed (the notifications *)
(* the transport has yet to deliver), fed (those it has delivered),        *)
(* original (the encrypted buffer the device fragmented), handed (the      *)
(* buffers _parse_input has taken, in order).                              *)
(***************************************************************************)
VARIABLES device_info, local_key, login_key, session_key, protocol_version,
          client, expected_disconnect, current_seq_num, is_paired, pending,
          operation_lock, connect_lock,
          datapoints, update_started, updated_datapoints,
          link, notify, clients,
          task, fut, sent, wire, returned, calls, inbound,
          connected_fired, disconnected_fired,
          input_buffer, input_expected_packet_num, input_expected_length,
          feed, fed, original, handed, dp_callbacks,
          callbacks, removers, codec

vars == <<device_info, local_key, login_key, session_key, protocol_version,
          client, expected_disconnect, current_seq_num, is_paired, pending,
          operation_lock, connect_lock,
          datapoints, update_started, updated_datapoints,
          link, notify, clients,
          task, fut, sent, wire, returned, calls, inbound,
          connected_fired, disconnected_fired,
          input_buffer, input_expected_packet_num, input_expected_length,
          feed, fed, original, handed, dp_callbacks,
          callbacks, removers, codec>>

\* The current state as one record, for the procedures below.
Cur ==
    [device_info |-> device_info, local_key |-> local_key,
     login_key |-> login_key, session_key |-> session_key,
     protocol_version |-> protocol_version, client |-> client,
     expected_disconnect |-> expected_disconnect,
     current_seq_num |-> current_seq_num, is_paired |-> is_paired,
     pending |-> pending, operation_lock |-> operation_lock,
     connect_lock |-> connect_lock, datapoints |-> datapoints,
     update_started |-> update_started,
     updated_datapoints |-> updated_datapoints,
     link |-> link, notify |-> notify, clients |-> clients,
     task |-> task, fut |-> fut, sent |-> sent, wire |-> wire,
     returned |-> returned, calls |-> calls, inbound |-> inbound,
     connected_fired |-> connected_fired,
     disconnected_fired |-> disconnected_fired,
     input_buffer |-> input_buffer,
     input_expected_packet_num |-> input_expected_packet_num,
     input_expected_length |-> input_expected_length,
     feed |-> feed, fed |-> fed, original |-> original, handed |-> handed,
     dp_callbacks |-> dp_callbacks,
     callbacks |-> callbacks, removers |-> removers, codec |-> codec]

\* The next state is s.
Becomes(s) ==
    /\ device_info' = s.device_info
    /\ local_key' = s.local_key
    /\ login_key' = s.login_key
    /\ session_key' = s.session_key
    /\ protocol_version' = s.protocol_version
    /\ client' = s.client
    /\ expected_disconnect' = s.expected_disconnect
    /\ current_seq_num' = s.current_seq_num
    /\ is_paired' = s.is_paired
    /\ pending' = s.pending
    /\ operation_lock' = s.operation_lock
    /\ connect_lock' = s.connect_lock
    /\ datapoints' = s.datapoints
    /\ update_started' = s.update_started
    /\ updated_datapoints' = s.updated_datapoints
    /\ link' = s.link
    /\ notify' = s.notify
    /\ clients' = s.clients
    /\ task' = s.task
    /\ fut' = s.fut
    /\ sent' = s.sent
    /\ wire' = s.wire
    /\ returned' = s.returned
    /\ calls' = s.calls
    /\ inbound' = s.inbound
    /\ connected_fired' = s.connected_fired
    /\ disconnected_fired' = s.disconnected_fired
    /\ input_buffer' = s.input_buffer
    /\ input_expected_packet_num' = s.input_expected_packet_num
    /\ input_expected_length' = s.input_expected_length
    /\ feed' = s.feed
    /\ fed' = s.fed
    /\ original' = s.original
    /\ handed' = s.handed
    /\ dp_callbacks' = s.dp_callbacks
    /\ callbacks' = s.callbacks
    /\ removers' = s.removers
    /\ codec' = s.codec

(***************************************************************************)
(* A task: pc is where it is suspended ("idle": no call runs in this slot   *)
(* of the user's; "free": no reply task in this slot), op the public call  *)
(* it is in and ids the list that call gave _send_datapoints, stage the part of the call  *)
(* ("ensure", "info", "pair": inside the try block of _ensure_connected;   *)
(* "main": the send of _send_packet; "reply": _send_response; "disc":      *)
(* _execute_disconnect), code / body / rto the message _send_packet or     *)
(* _send_response was called with, m the index in sent of the message      *)
(* being sent or awaited, next the number of the next packet to write, cl  *)
(* the local variable client of _execute_disconnect.                       *)
(***************************************************************************)
IdleTask ==
    [pc |-> "idle", op |-> "none", ids |-> <<>>, stage |-> "none",
     code |-> 0, body |-> <<>>, rto |-> 0, m |-> 0, next |-> 0, cl |-> 0]

FreeTask == [IdleTask EXCEPT !.pc = "free"]

\* self._client and self._client.is_connected
IsConnected(s) == s.client # 0 /\ s.link = s.client

\* The call (or the reply task) of t ends with result r.
NoCall == [t |-> "none", op |-> "none", ids |-> <<>>, m |-> 0,
           ret |-> "none", retcode |-> 0]

Ret(s, t, r, c) ==
    IF t \in ReplyTasks
    THEN [s EXCEPT !.task[t] = FreeTask]
    ELSE [s EXCEPT !.task[t] = IdleTask,
                   !.returned =
                       [t |-> t, op |-> s.task[t].op, ids |-> s.task[t].ids,
                        m |-> s.task[t].m,
                        ret |-> r, retcode |-> c]]

\* A variant in which an exception inside _ensure_connected leaves the
\* connect lock with the task that has ended.
RaiseKeepLock(s, t, exc, c) ==
    IF s.task[t].stage \in {"ensure", "info", "pair"}
    THEN Ret([s EXCEPT !.client = 0], t, exc, c)
    ELSE Ret(s, t, exc, c)

\* An exception leaves the coroutine of t: inside the try block of
\* _ensure_connected the handler sets _client to None and the connect lock
\* is released; then it propagates to the caller of the public method.
Raise(s, t, exc, c) ==
    IF s.task[t].stage \in {"ensure", "info", "pair"}
    THEN Ret([s EXCEPT !.client = 0, !.connect_lock = Tail(@)], t, exc, c)
    ELSE Ret(s, t, exc, c)

\* The public method returns normally; end_update first executes
\* self._updated_datapoints = [].
OpReturn(s, t) ==
    IF s.task[t].op = "end_update"
    THEN Ret([s EXCEPT !.updated_datapoints = <<>>], t, "ok", 0)
    ELSE Ret(s, t, "ok", 0)

(***************************************************************************)
(* Sending one message.                                                    *)
(***************************************************************************)
\* TuyaBLEDevice._get_seq_num.  The sequence-number lock is never held
\* across a suspension, so it is always free here and the read and the
\* increment are one uninterrupted run.
\* A variant that hands out the counter without advancing it.
GetSeqNumNoIncrement(s) == [result |-> s.current_seq_num, s |-> s]

GetSeqNum(s) ==
    [result |-> s.current_seq_num,
     s |-> [s EXCEPT !.current_seq_num = @ + 1]]

\* A variant that takes the session key for every opcode.
SelectKeySessionOnly(s, code) ==
    [key |-> s.session_key, security_flag |-> 5]

\* The key selection at the head of _build_packets.
SelectKey(s, code) ==
    IF code = FUN_SENDER_DEVICE_INFO
    THEN [key |-> s.login_key, security_flag |-> 4]
    ELSE [key |-> s.session_key, security_flag |-> 5]

\* A variant of the loop of _send_packets_locked that starts from the last
\* packet.
WritePacketReversed(s, t) ==
    IF ~IsConnected(s)
    THEN Raise([s EXCEPT !.operation_lock = Tail(@)], t, "BleakError", 0)
    ELSE [s EXCEPT !.wire = Append(@,
                       [m |-> s.task[t].m,
                        pn |-> Len(s.sent[s.task[t].m].msg.parts) - 1
                               - s.task[t].next]),
                   !.task[t].pc = "writing",
                   !.task[t].next = @ + 1]

\* One turn of the loop of _send_packets_locked, by the owner t of the
\* operation lock: the packet is handed to write_gatt_char and t suspends
\* until the write completes.  With _client None, or a client that is not
\* connected (write_gatt_char raises), BleakError leaves
\* _int_send_packet_while_connected, which releases the operation lock.
WritePacket(s, t) ==
    IF ~IsConnected(s)
    THEN Raise([s EXCEPT !.operation_lock = Tail(@)], t, "BleakError", 0)
    ELSE [s EXCEPT !.wire = Append(@, [m |-> s.task[t].m, pn |-> s.task[t].next]),
                   !.task[t].pc = "writing",
                   !.task[t].next = @ + 1]

\* A variant that writes without waiting for the operation lock.
IntSendPacketWhileConnectedUnlocked(s, t) ==
    WritePacket([s EXCEPT !.operation_lock = <<t>> \o @], t)

\* async with self._operation_lock, then the first packet.
IntSendPacketWhileConnected(s, t) ==
    IF s.operation_lock = <<>>
    THEN WritePacket([s EXCEPT !.operation_lock = <<t>>], t)
    ELSE [s EXCEPT !.operation_lock = Append(@, t), !.task[t].pc = "op_wait"]

\* TuyaBLEDevice._send_packet_while_connected up to its first suspension:
\* the sequence number, the future registered under it, the packets (AES.new
\* raises TypeError on a key that is None), the operation lock.  The state
\* s1 with the message registered is computed once.
SendPacketWhileConnected(s, t, stage, code, data, response_to, wait_for_response) ==
    LET got == GetSeqNum(s)
        seq_num == got.result
        m == Len(s.sent) + 1
        sel == SelectKey(s, code)
        built == sel.key # NoKey
        packets == IF built
                   THEN BuildPackets(seq_num, code, data, response_to,
                                     sel.key, sel.security_flag)
                   ELSE [BuildPackets(seq_num, code, data, response_to,
                                      sel.key, sel.security_flag)
                         EXCEPT !.parts = <<>>]
        s1 == [got.s EXCEPT
                 !.pending = IF wait_for_response THEN MapPut(@, seq_num, m) ELSE @,
                 !.fut = IF wait_for_response
                         THEN MapPut(@, m, [st |-> "pending", code |-> 0])
                         ELSE @,
                 !.sent = Append(@, [ep |-> s.client, by |-> t,
                                     awaited |-> wait_for_response,
                                     msg |-> packets]),
                 !.task[t].stage = stage,
                 !.task[t].m = m,
                 !.task[t].next = 0]
        Send(n) == IF built THEN IntSendPacketWhileConnected(n, t)
                   ELSE Raise(n, t, "TypeError", 0)
    IN CHOOSE r \in {Send(n) : n \in {s1}} : TRUE

\* _ensure_connected returns to connect(), or to _send_packet, which sends
\* its message unless _expected_disconnect is set.
EnsureReturn(s, t) ==
    IF s.task[t].op = "connect" THEN Ret(s, t, "ok", 0)
    ELSE IF s.expected_disconnect THEN OpReturn(s, t)
    ELSE SendPacketWhileConnected(s, t, "main", s.task[t].code,
                                  s.task[t].body, 0, TRUE)

\* _send_packet_while_connected has returned (True, or False after a
\* timeout: no caller looks at the result).  After the pairing request
\* _ensure_connected fires the connected callbacks if _is_paired is set.
AfterSend(s, t) ==
    CASE s.task[t].stage = "info" ->
            SendPacketWhileConnected(s, t, "pair", FUN_SENDER_PAIR,
                BuildPairingRequest(s.device_info, s.local_key), 0, TRUE)
      [] s.task[t].stage = "pair" ->
            EnsureReturn([s EXCEPT !.connect_lock = Tail(@),
                                   !.task[t].stage = "none",
                                   !.connected_fired =
                                       IF s.is_paired THEN @ + 1 ELSE @], t)
      [] OTHER -> OpReturn(s, t)

\* asyncio.wait_for on a future that is done: the result, or the exception
\* set on it; then the pop of seq_num (skipped by the exception).  The
\* future was a local of the coroutine: it is gone with it.
FutureDone(s, t) ==
    LET m == s.task[t].m
        s1 == [s EXCEPT !.fut = MapDel(@, m)]
    IN IF s.fut[m].st = "ok"
       THEN AfterSend([s1 EXCEPT !.pending = MapDel(@, s.sent[m].msg.seq)], t)
       ELSE Raise(s1, t, "DeviceError", s.fut[m].code)

\* The last packet is written: the operation lock is released and, for an
\* awaited send, the future is awaited.
AfterPackets(s, t) ==
    LET m == s.task[t].m
        s1 == [s EXCEPT !.operation_lock = Tail(@)]
    IN IF s.sent[m].awaited
       THEN IF s.fut[m].st = "pending"
            THEN [s1 EXCEPT !.task[t].pc = "await_resp"]
            ELSE FutureDone(s1, t)
       ELSE AfterSend(s1, t)

(***************************************************************************)
(* Connecting and disconnecting.                                           *)
(***************************************************************************)
\* A variant that does not check again once it holds the connect lock.
EnsureLockedNoRecheck(s, t) ==
    [s EXCEPT !.clients = @ + 1,
              !.client = s.clients + 1,
              !.task[t].pc = "connecting",
              !.task[t].stage = "ensure"]

\* _ensure_connected with the connect lock held: the second check, then a
\* new BleakClient and the call of its connect().
EnsureLocked(s, t) ==
    IF IsConnected(s) /\ s.is_paired
    THEN EnsureReturn([s EXCEPT !.connect_lock = Tail(@)], t)
    ELSE [s EXCEPT !.clients = @ + 1,
                   !.client = s.clients + 1,
                   !.task[t].pc = "connecting",
                   !.task[t].stage = "ensure"]

\* TuyaBLEDevice._ensure_connected up to its first suspension.
EnsureConnected(s, t) ==
    IF s.expected_disconnect THEN EnsureReturn(s, t)
    ELSE IF IsConnected(s) /\ s.is_paired THEN EnsureReturn(s, t)
    ELSE IF s.connect_lock = <<>>
    THEN EnsureLocked([s EXCEPT !.connect_lock = <<t>>], t)
    ELSE [s EXCEPT !.connect_lock = Append(@, t), !.task[t].pc = "cl_wait"]

\* TuyaBLEDevice._send_packet
SendPacket(s, t, code, data) ==
    IF s.expected_disconnect THEN OpReturn(s, t)
    ELSE EnsureConnected(
             [s EXCEPT !.task[t].code = code, !.task[t].body = data], t)

\* The end of _execute_disconnect: the connect lock is released and the
\* sequence number is reset.
DisconnectTail(s, t) ==
    Ret([s EXCEPT !.connect_lock = Tail(@), !.current_seq_num = 1], t, "ok", 0)

\* _execute_disconnect with the connect lock held.
DisconnectLocked(s, t) ==
    LET s1 == [s EXCEPT !.expected_disconnect = TRUE,
                        !.client = 0,
                        !.task[t].cl = s.client]
    IN IF IsConnected(s)
       THEN [s1 EXCEPT !.task[t].pc = "stop_notify", !.task[t].stage = "disc"]
       ELSE DisconnectTail(s1, t)

\* TuyaBLEDevice._execute_disconnect up to its first suspension.
ExecuteDisconnect(s, t) ==
    IF s.connect_lock = <<>>
    THEN DisconnectLocked([s EXCEPT !.connect_lock = <<t>>], t)
    ELSE [s EXCEPT !.connect_lock = Append(@, t), !.task[t].pc = "cl_wait"]

(***************************************************************************)
(* The datapoint collection.                                               *)
(***************************************************************************)
\* The loop of _send_datapoints_v3: the body of the SENDER_DPS message.
RECURSIVE DpsBody(_, _)
DpsBody(dps, datapoint_ids) ==
    IF datapoint_ids = <<>> THEN [err |-> FALSE, b |-> <<>>]
    ELSE LET dp_id == Head(datapoint_ids)
             rest == DpsBody(dps, Tail(datapoint_ids))
         IN IF dp_id \notin DOMAIN dps THEN rest
            ELSE LET value == GetValue(dps[dp_id])
                 IN [err |-> value.err \/ rest.err,
                     b |-> <<dp_id, dps[dp_id].type, Len(value.b)>>
                           \o value.b \o rest.b]

\* TuyaBLEDevice._send_datapoints and _send_datapoints_v3
SendDatapoints(s0, t, datapoint_ids) ==
    LET s == [s0 EXCEPT !.task[t].ids = datapoint_ids]
    IN IF s.protocol_version = 3
       THEN LET data == DpsBody(s.datapoints, datapoint_ids)
            IN IF data.err THEN Raise(s, t, "StructError", 0)
               ELSE SendPacket(s, t, FUN_SENDER_DPS, data.b)
       ELSE Raise(s, t, "DeviceError", 0)

\* A variant of _update_from_user that does not look at the batch counter.
UpdateFromUserUnbatched(s, t, dp_id) == SendDatapoints(s, t, <<dp_id>>)

\* A variant of _update_from_user that leaves an id that is already in the
\* buffer where it is.
UpdateFromUserKeepPlace(s, t, dp_id) ==
    IF s.update_started > 0
    THEN Ret([s EXCEPT !.updated_datapoints =
                 IF InList(@, dp_id) THEN @ ELSE Append(@, dp_id)],
             t, "ok", 0)
    ELSE SendDatapoints(s, t, <<dp_id>>)

\* TuyaBLEDataPoints._update_from_user
UpdateFromUser(s, t, dp_id) ==
    IF s.update_started > 0
    THEN Ret([s EXCEPT !.updated_datapoints =
                 Append(IF InList(@, dp_id) THEN ListRemove(@, dp_id) ELSE @,
                        dp_id)],
             t, "ok", 0)
    ELSE SendDatapoints(s, t, <<dp_id>>)

\* TuyaBLEDataPoint.set_value
SetValueCall(s, t, dp_id, value) ==
    LET co == SetCoerce(s.datapoints[dp_id].type, value)
    IN IF co.err THEN Raise(s, t, "EnumValueError", 0)
       ELSE UpdateFromUser(
                [s EXCEPT !.datapoints[dp_id].value = co.value,
                          !.datapoints[dp_id].changed_by_device = FALSE],
                t, dp_id)

\* TuyaBLEDataPoints.end_update
EndUpdateCall(s, t) ==
    IF s.update_started > 0
    THEN LET s1 == [s EXCEPT !.update_started = @ - 1]
         IN IF s1.update_started = 0 /\ Len(s1.updated_datapoints) > 0
            THEN SendDatapoints(s1, t, s1.updated_datapoints)
            ELSE Ret(s1, t, "ok", 0)
    ELSE Ret(s, t, "ok", 0)

(***************************************************************************)
(* The inbound dispatcher, on a message that _parse_input has decrypted    *)
(* and whose length and CRC it has accepted.                               *)
(***************************************************************************)
\* asyncio.create_task(self._send_response(code, data, seq_num)): the reply
\* runs as a task of its own, in a free slot.
FreeSlot(s) == CHOOSE r \in ReplyTasks : s.task[r].pc = "free"

CreateReplyTask(s, code, data, response_to) ==
    [s EXCEPT !.task[FreeSlot(s)] =
        [FreeTask EXCEPT !.pc = "spawned", !.op = "reply", !.code = code,
                         !.body = data, !.rto = response_to]]

\* struct.pack(">h", n)
PackInt16(n) == IF n >= 0 THEN BigEndian(n, 2) ELSE BigEndian(n + 65536, 2)

\* int(x / 36): the quotient rounded towards zero.
TruncDiv36(x) == IF x >= 0 THEN x \div 36 ELSE -((-x) \div 36)

\* str(timestamp).encode() + pack(">h", timezone) of the TIME1 reply.
Time1Body ==
    [i \in 1..Len(Clock.ms_digits) |-> 48 + Clock.ms_digits[i]]
    \o PackInt16(-TruncDiv36(Clock.timezone))

\* time.localtime() at the reading Clock.now of the local clock.
LocalTime ==
    [tm_year |-> 2023, tm_mon |-> 11, tm_mday |-> 14, tm_hour |-> 23,
     tm_min |-> 13, tm_sec |-> 20, tm_wday |-> 1]

\* pack(">BBBBBBBh", ...) of the TIME2 reply.
Time2Body ==
    <<LocalTime.tm_year % 100, LocalTime.tm_mon, LocalTime.tm_mday,
      LocalTime.tm_hour, LocalTime.tm_min, LocalTime.tm_sec,
      LocalTime.tm_wday>>
    \o PackInt16(-TruncDiv36(Clock.timezone))

\* int(b.decode()) of a string of decimal digits.
RECURSIVE Decimal(_)
Decimal(b) ==
    IF b = <<>> THEN 0
    ELSE Decimal(SubSeq(b, 1, Len(b) - 1)) * 10 + (b[Len(b)] - 48)

\* TuyaBLEDevice._parse_timestamp: the timestamp in seconds and the position
\* after it.  The 13 digits of time type 0 are milliseconds; the messages of
\* the model carry whole seconds, for which the division by 1000 is exact.
ParseTimestamp(data, start_pos) ==
    IF start_pos >= Len(data)
    THEN [err |-> "LengthError", timestamp |-> 0, pos |-> start_pos]
    ELSE LET time_type == data[start_pos + 1]
             pos == start_pos + 1
         IN CASE time_type = 0 ->
                    IF pos + 13 > Len(data)
                    THEN [err |-> "LengthError", timestamp |-> 0, pos |-> pos]
                    ELSE IF \E i \in pos + 1..pos + 13 : data[i] \notin 48..57
                    THEN [err |-> "ValueError", timestamp |-> 0, pos |-> pos]
                    ELSE [err |-> "none", pos |-> pos + 13,
                          timestamp |-> Decimal(Slice(data, pos, pos + 13)) \div 1000]
              [] time_type = 1 ->
                    IF pos + 4 > Len(data)
                    THEN [err |-> "LengthError", timestamp |-> 0, pos |-> pos]
                    ELSE [err |-> "none", pos |-> pos + 4,
                          timestamp |-> FromBytesBig(Slice(data, pos, pos + 4))]
              [] OTHER -> [err |-> "FormatError", timestamp |-> 0, pos |-> pos]

\* What a datapoint callback is called with: the datapoints of the list, as
\* they are in the collection when the callback runs.
CallbackArgs(collection, list) ==
    [i \in 1..Len(list) |-> [id |-> list[i], dp |-> collection[list[i]]]]

\* A variant that calls the callbacks a second time.
FireCallbacksTwice(s, list) ==
    [s EXCEPT !.dp_callbacks =
        Append(Append(@, CallbackArgs(s.datapoints, list)),
               CallbackArgs(s.datapoints, list))]

\* TuyaBLEDevice._fire_callbacks
FireCallbacks(s, list) ==
    [s EXCEPT !.dp_callbacks = Append(@, CallbackArgs(s.datapoints, list))]

\* A variant that answers with response_to 0.
SendResponseNoEcho(s, code, data, seq_num) == CreateReplyTask(s, code, data, 0)

\* asyncio.create_task(self._send_response(code, data, seq_num))
SendResponse(s, code, data, seq_num) == CreateReplyTask(s, code, data, seq_num)

\* A datapoint message: parsed is what _parse_datapoints_v3 did on its body.
\* The callbacks are fired at the end of the parse; the reply follows.  An
\* exception of the parse leaves the datapoints it had stored and fires and
\* sends nothing.
DatapointMessage(s, parsed, code, reply, seq_num) ==
    LET s1 == [s EXCEPT !.datapoints = parsed.datapoints]
    IN IF parsed.err # "none"
       THEN [err |-> parsed.err, s |-> s1, result |-> 0]
       ELSE [err |-> "none", result |-> 0,
             s |-> SendResponse(FireCallbacks(s1, parsed.list), code, reply,
                                seq_num)]

\* pack(">HBB", dp_seq_num, flags, 0) of the replies to the SIGN messages.
SignReply(data) == BigEndian(FromBytesBig(Slice(data, 0, 2)), 2) \o <<data[3], 0>>

\* A variant that takes "already paired" for an error.
PairResultStrict(value) == value

\* The result of a pair reply: 2 (already paired) counts as 0.
PairResult(value) == IF value = 2 THEN 0 ELSE value

\* The match statement of _handle_command_or_response: the state after it,
\* result, and the exception that left it, if any.
Dispatch(s, seq_num, code, data) ==
    CASE code = FUN_SENDER_DEVICE_INFO ->
            IF Len(data) < 46 THEN [err |-> "LengthError", s |-> s, result |-> 0]
            ELSE [err |-> "none", result |-> 0,
                  s |-> [s EXCEPT !.protocol_version = data[3],
                                  !.session_key =
                                      MD5(s.local_key \o Slice(data, 6, 12))]]
      [] code = FUN_SENDER_PAIR ->
            IF Len(data) # 1 THEN [err |-> "LengthError", s |-> s, result |-> 0]
            ELSE LET result == PairResult(data[1])
                 IN [err |-> "none", result |-> result,
                     s |-> [s EXCEPT !.is_paired = (result = 0)]]
      [] code = FUN_SENDER_DEVICE_STATUS ->
            IF Len(data) # 1 THEN [err |-> "LengthError", s |-> s, result |-> 0]
            ELSE [err |-> "none", s |-> s, result |-> data[1]]
      [] code = FUN_RECEIVE_TIME1_REQ ->
            IF Len(data) # 0 THEN [err |-> "LengthError", s |-> s, result |-> 0]
            ELSE [err |-> "none", result |-> 0,
                  s |-> SendResponse(s, code, Time1Body, seq_num)]
      [] code = FUN_RECEIVE_TIME2_REQ ->
            IF Len(data) # 0 THEN [err |-> "LengthError", s |-> s, result |-> 0]
            ELSE [err |-> "none", result |-> 0,
                  s |-> SendResponse(s, code, Time2Body, seq_num)]
      [] code = FUN_RECEIVE_DP ->
            DatapointMessage(
                s, ParseDatapointsV3(s.datapoints, Clock.now, 0, data, 0),
                code, <<>>, seq_num)
      [] code = FUN_RECEIVE_SIGN_DP ->
            IF Len(data) < 3 THEN [err |-> "IndexError", s |-> s, result |-> 0]
            ELSE DatapointMessage(
                     s, ParseDatapointsV3(s.datapoints, Clock.now, data[3], data, 2),
                     code, SignReply(data), seq_num)
      [] code = FUN_RECEIVE_TIME_DP ->
            LET ts == ParseTimestamp(data, 0)
            IN IF ts.err # "none" THEN [err |-> ts.err, s |-> s, result |-> 0]
               ELSE DatapointMessage(
                        s, ParseDatapointsV3(s.datapoints, ts.timestamp, 0, data,
                                             ts.pos),
                        code, <<>>, seq_num)
      [] code = FUN_RECEIVE_SIGN_TIME_DP ->
            IF Len(data) < 3 THEN [err |-> "IndexError", s |-> s, result |-> 0]
            ELSE LET ts == ParseTimestamp(data, 3)
                 IN IF ts.err # "none"
                    THEN [err |-> ts.err, s |-> s, result |-> 0]
                    ELSE DatapointMessage(
                             s, ParseDatapointsV3(s.datapoints, Clock.now, data[3],
                                                  data, ts.pos),
                             code, SignReply(data), seq_num)
      [] OTHER -> [err |-> "none", s |-> s, result |-> 0]

\* A variant of the tail of _handle_command_or_response that does not look
\* at result.
ResolveResponseAlwaysOk(s, response_to, result) ==
    IF response_to # 0 /\ response_to \in DOMAIN s.pending
    THEN [s EXCEPT !.pending = MapDel(@, response_to),
                   !.fut[s.pending[response_to]] = [st |-> "ok", code |-> 0]]
    ELSE s

\* The tail of _handle_command_or_response: the future registered under
\* response_to is popped and resolved.
ResolveResponse(s, response_to, result) ==
    IF response_to # 0 /\ response_to \in DOMAIN s.pending
    THEN LET m == s.pending[response_to]
         IN [s EXCEPT !.pending = MapDel(@, response_to),
                      !.fut[m] = IF result = 0
                                 THEN [st |-> "ok", code |-> 0]
                                 ELSE [st |-> "error", code |-> result]]
    ELSE s

\* TuyaBLEDevice._handle_command_or_response
HandleCommandOrResponse(s, seq_num, response_to, code, data) ==
    LET d == Dispatch(s, seq_num, code, data)
    IN IF d.err # "none" THEN d.s
       ELSE ResolveResponse(d.s, response_to, d.result)

\* The tail of _parse_input: a code that is no member of TuyaBLECode is
\* logged and dropped.
ParseInput(s, seq_num, response_to, code, data) ==
    IF code \notin TuyaBLECode THEN s
    ELSE HandleCommandOrResponse(s, seq_num, response_to, code, data)

(***************************************************************************)
(* The reassembler.                                                        *)
(***************************************************************************)
\* TuyaBLEDevice._clean_input
CleanInput(s) ==
    [s EXCEPT !.input_buffer = PyNone,
              !.input_expected_packet_num = 0,
              !.input_expected_length = 0]

\* The head of _parse_input: the complete buffer is taken and the input
\* cleaned.  What follows on the buffer (AES.new, which raises TypeError on
\* a device that has no key yet, the decryption and
\* _handle_command_or_response) is in Delivered.
TakeInput(s) == [CleanInput(s) EXCEPT !.handed = Append(@, s.input_buffer.v)]

\* A variant of the branch below that drops the packet and keeps the state.
MissingPacketIgnored(s) == s

\* The else branch of _notification_handler: a packet other than the
\* expected one.
MissingPacket(s) == CleanInput(s)

\* TuyaBLEDevice._notification_handler on the packet data.  An exception of
\* _unpack_int leaves the handler with the assignments made so far.
NotificationHandler(s, data) ==
    LET num == UnpackInt(data, 0)
        packet_num == num.result
        s1 == IF packet_num < s.input_expected_packet_num
              THEN CleanInput(s) ELSE s
        len == IF packet_num = 0 THEN UnpackInt(data, num.pos)
               ELSE [err |-> "none", result |-> s1.input_expected_length,
                     pos |-> num.pos]
        pos == IF packet_num = 0 THEN len.pos + 1 ELSE len.pos
        buffer == (IF packet_num = 0 THEN <<>> ELSE s1.input_buffer.v)
                  \o SubSeq(data, pos + 1, Len(data))
        s2 == [s1 EXCEPT !.input_buffer = PyBytes(buffer),
                         !.input_expected_length = len.result,
                         !.input_expected_packet_num = @ + 1]
    IN IF num.err # "none" THEN s
       ELSE IF packet_num # s1.input_expected_packet_num THEN MissingPacket(s1)
       ELSE IF len.err # "none"
       THEN [s1 EXCEPT !.input_buffer = PyBytes(<<>>)]
       ELSE IF Len(buffer) > len.result THEN CleanInput(s2)
       ELSE IF Len(buffer) = len.result THEN TakeInput(s2)
       ELSE s2

(***************************************************************************)
(* Inputs.                                                                 *)
(***************************************************************************)
\* The protocol version byte of the advertisement passed to the device
\* (<<>>: no advertisement data).
Advertisements == {<<>>, <<3>>}

\* The datapoints the user creates with get_or_create: id -> (type, value).
UserDatapoints ==
    [id \in {1, 2} |->
        IF id = 1 THEN [type |-> DT_BOOL, value |-> PyBool(FALSE)]
        ELSE [type |-> DT_VALUE, value |-> PyInt(0)]]

\* The values the user passes to set_value.
UserValues == {PyBool(FALSE), PyBool(TRUE), PyInt(10)}

\* A device-info reply: versions, flags, bound flag, srand, hardware
\* version, auth key.
DeviceInfoReply(protocol, srand) ==
    <<1, 0, protocol, 3, 0, 1>> \o srand \o <<1, 0>> \o Zeros(32)

\* A message of the device: the security flag it is encrypted under, its
\* code and its body.
Msg(flag, code, data) == [flag |-> flag, code |-> code, data |-> data]

InfoReply == Msg(4, FUN_SENDER_DEVICE_INFO, DeviceInfoReply(3, <<1, 2, 3, 4, 5, 6>>))
PairReply(result) == Msg(5, FUN_SENDER_PAIR, <<result>>)
StatusReply(result) == Msg(5, FUN_SENDER_DEVICE_STATUS, <<result>>)
DpsReply == Msg(5, FUN_SENDER_DPS, <<0>>)

\* The messages the device sends: the replies of a device that follows the
\* protocol, its own commands, and malformed or unknown ones.
DeviceMessages ==
    {InfoReply,
     Msg(4, FUN_SENDER_DEVICE_INFO, Zeros(45)),
     PairReply(0), PairReply(2), PairReply(1),
     Msg(5, FUN_SENDER_PAIR, <<0, 0>>),
     DpsReply,
     StatusReply(0), StatusReply(1),
     Msg(5, FUN_RECEIVE_DP, <<1, DT_BOOL, 1, 1>>),
     Msg(5, FUN_RECEIVE_DP, <<1, 9, 1, 1>>),
     Msg(5, FUN_RECEIVE_TIME1_REQ, <<>>),
     Msg(5, 4, <<>>)}

\* The replies of a device that accepts every request.
AcceptingReplies == {InfoReply, PairReply(0), DpsReply}

\* The sequence numbers the device gives its messages.
DeviceSeqNums == {7}

\* The three callback lists of __init__: _callbacks, _connected_callbacks
\* and _disconnected_callbacks.
NoCallbacks == [datapoint |-> <<>>, connected |-> <<>>, disconnected |-> <<>>]

\* No codec function is being applied.
NoCodec == [fn |-> "none"]

(***************************************************************************)
(* The initial state: a TuyaBLEDevice as __init__ leaves it, and the       *)
(* notifications the transport is going to deliver.                        *)
(***************************************************************************)
InitFields(buffer, notifications) ==
    /\ device_info = <<>>
    /\ local_key = NoKey
    /\ login_key = NoKey
    /\ session_key = NoKey
    /\ protocol_version = 2
    /\ client = 0
    /\ expected_disconnect = FALSE
    /\ current_seq_num = 1
    /\ is_paired = FALSE
    /\ pending = EmptyMap
    /\ operation_lock = <<>>
    /\ connect_lock = <<>>
    /\ datapoints = EmptyMap
    /\ update_started = 0
    /\ updated_datapoints = <<>>
    /\ link = 0
    /\ notify = 0
    /\ clients = 0
    /\ task = [t \in Tasks |-> IF t \in UserTasks THEN IdleTask ELSE FreeTask]
    /\ fut = EmptyMap
    /\ sent = <<>>
    /\ wire = <<>>
    /\ returned = NoCall
    /\ calls = 0
    /\ inbound = 0
    /\ connected_fired = 0
    /\ disconnected_fired = 0
    /\ input_buffer = PyNone
    /\ input_expected_packet_num = 0
    /\ input_expected_length = 0
    /\ feed = notifications
    /\ fed = <<>>
    /\ original = buffer
    /\ handed = <<>>
    /\ dp_callbacks = <<>>
    /\ callbacks = NoCallbacks
    /\ removers = <<>>

\* No codec function is being applied on its own.
InitDevice(buffer, notifications) ==
    InitFields(buffer, notifications) /\ codec = NoCodec

\* No notification below the level of whole messages.
Init == InitDevice(<<>>, <<>>)

\* A step to s, within the bound on the messages of one behaviour.
Step(s) == \E n \in {s} : Len(n.sent) <= MaxMsgs /\ Becomes(n)

\* A public call starts in slot t; n is 1 for a call that is counted
\* against MaxCalls, 0 for a call that only edits the batch state.
StartCall(t, op, n) ==
    [Cur EXCEPT !.calls = @ + n, !.task[t] = [IdleTask EXCEPT !.op = op]]

\* A call runs in the first slot that is idle (the slots are alike).
CanCall(t) ==
    /\ calls < MaxCalls
    /\ task[t].pc = "idle"
    /\ t = "u2" => task["u1"].pc # "idle"

(***************************************************************************)
(* The public API.                                                         *)
(***************************************************************************)
\* TuyaBLEDevice.initialize: _update_device_info loads the credentials and
\* derives the keys, _decode_advertisement_data reads the protocol version.
InitializeWith(cred, adv) ==
    /\ device_info = <<>>
    /\ Step([Cur EXCEPT
           !.device_info = <<cred>>,
           !.local_key = Prefix(cred.local_key, 6),
           !.login_key = MD5(Prefix(cred.local_key, 6)),
           !.protocol_version = IF adv = <<>> THEN @ ELSE adv[1]])

\* initialize() with a manager that returns Credentials.
Initialize(adv) == InitializeWith(Credentials, adv)

\* TuyaBLEDataPoints.get_or_create
GetOrCreate(id) ==
    /\ id \notin DOMAIN datapoints
    /\ Step([Cur EXCEPT !.datapoints =
           MapPut(@, id, DpInit(Clock.now, 0, UserDatapoints[id].type,
                                UserDatapoints[id].value))])

\* TuyaBLEDataPoints.begin_update
BeginUpdate ==
    /\ update_started < MaxDepth
    /\ Step([Cur EXCEPT !.update_started = @ + 1])

\* TuyaBLEDataPoints.end_update
EndUpdate(t) ==
    /\ CanCall(t)
    /\ Step(EndUpdateCall(
           StartCall(t, "end_update",
                     IF update_started = 1 /\ updated_datapoints # <<>>
                     THEN 1 ELSE 0), t))

\* TuyaBLEDataPoint.set_value
SetValue(t, dp_id, value) ==
    /\ CanCall(t)
    /\ dp_id \in DOMAIN datapoints
    /\ Step(SetValueCall(
           StartCall(t, "set_value", IF update_started > 0 THEN 0 ELSE 1),
           t, dp_id, value))

\* TuyaBLEDevice.connect
Connect(t) ==
    /\ CanCall(t)
    /\ Step(EnsureConnected(StartCall(t, "connect", 1), t))

\* TuyaBLEDevice.disconnect
Disconnect(t) ==
    /\ CanCall(t)
    /\ Step(ExecuteDisconnect(StartCall(t, "disconnect", 1), t))

\* TuyaBLEDevice.update
Update(t) ==
    /\ CanCall(t)
    /\ Step(SendPacket(StartCall(t, "update", 1), t, FUN_SENDER_DEVICE_STATUS, <<>>))

(***************************************************************************)
(* Resumptions: a suspended task runs to its next suspension.              *)
(***************************************************************************)
\* The connect lock is handed to its first waiter, in _ensure_connected or
\* in _execute_disconnect.
ConnectLockGranted(t) ==
    /\ task[t].pc = "cl_wait"
    /\ Head(connect_lock) = t
    /\ Step(IF task[t].op = "disconnect" THEN DisconnectLocked(Cur, t)
            ELSE EnsureLocked(Cur, t))

\* client.connect() returns: the new client is connected (a connection an
\* earlier client object still held is gone) and start_notify is called.
ConnectDone(t) ==
    /\ task[t].pc = "connecting"
    /\ Step([Cur EXCEPT !.link = client, !.notify = 0, !.task[t].pc = "notify"])

\* client.connect() raises.
ConnectFail(t) ==
    /\ task[t].pc = "connecting"
    /\ Step(Raise(Cur, t, "BleakError", 0))

\* start_notify returns and the device-info request is sent.
NotifyDone(t) ==
    /\ task[t].pc = "notify"
    /\ IsConnected(Cur)
    /\ Step(SendPacketWhileConnected([Cur EXCEPT !.notify = client], t, "info",
                                     FUN_SENDER_DEVICE_INFO, <<>>, 0, TRUE))

\* start_notify raises: the link went down.
NotifyFail(t) ==
    /\ task[t].pc = "notify"
    /\ ~IsConnected(Cur)
    /\ Step(Raise(Cur, t, "BleakError", 0))

\* client.stop_notify() returns and client.disconnect() is called; on a link
\* that went down it raises, which leaves _execute_disconnect (the connect
\* lock is released, the sequence number is not reset).
StopNotifyDone(t) ==
    /\ task[t].pc = "stop_notify"
    /\ Step(IF link = task[t].cl
            THEN [Cur EXCEPT !.notify = 0, !.task[t].pc = "closing"]
            ELSE Ret([Cur EXCEPT !.connect_lock = Tail(@)], t, "BleakError", 0))

\* client.disconnect() returns.
CloseDone(t) ==
    /\ task[t].pc = "closing"
    /\ Step(DisconnectTail(
           [Cur EXCEPT !.link = IF @ = task[t].cl THEN 0 ELSE @,
                       !.notify = IF @ = task[t].cl THEN 0 ELSE @], t))

\* The operation lock is handed to its first waiter.
OperationLockGranted(t) ==
    /\ task[t].pc = "op_wait"
    /\ Head(operation_lock) = t
    /\ Step(WritePacket(Cur, t))

\* write_gatt_char returns: the next packet, or the end of the send.
WriteDone(t) ==
    /\ task[t].pc = "writing"
    /\ Step(IF task[t].next < Len(sent[task[t].m].msg.parts)
            THEN WritePacket(Cur, t)
            ELSE AfterPackets(Cur, t))

\* The awaited future was resolved.
ResponseReady(t) ==
    /\ task[t].pc = "await_resp"
    /\ fut[task[t].m].st # "pending"
    /\ Step(FutureDone(Cur, t))

\* RESPONSE_WAIT_TIMEOUT passes: wait_for cancels the future and raises
\* TimeoutError, which _send_packet_while_connected catches; seq_num is
\* popped and False returned.
Timeout(t) ==
    /\ task[t].pc = "await_resp"
    /\ fut[task[t].m].st = "pending"
    /\ Step(AfterSend(
           [Cur EXCEPT !.fut = MapDel(@, task[t].m),
                       !.pending = MapDel(@, sent[task[t].m].msg.seq)], t))

\* A reply task runs: TuyaBLEDevice._send_response.
ReplyRun(t) ==
    /\ task[t].pc = "spawned"
    /\ Step(IF IsConnected(Cur)
            THEN SendPacketWhileConnected(Cur, t, "reply", task[t].code,
                                          task[t].body, task[t].rto, FALSE)
            ELSE Ret(Cur, t, "ok", 0))

(***************************************************************************)
(* The transport.                                                          *)
(***************************************************************************)
\* _get_key
GetKey(s, security_flag) ==
    CASE security_flag = 4 -> s.login_key
      [] security_flag = 5 -> s.session_key
      [] OTHER -> NoKey

\* The device can send msg and _parse_input can decrypt it: notifications
\* are subscribed and the key of its security flag is there.
CanDeliver(msg) ==
    /\ notify # 0
    /\ inbound < MaxInbound
    /\ GetKey(Cur, msg.flag) # NoKey
    /\ msg.code >= 32768 => \E r \in ReplyTasks : task[r].pc = "free"

\* The state after _parse_input has decoded msg.
Delivered(msg, seq_num, response_to) ==
    ParseInput([Cur EXCEPT !.inbound = @ + 1], seq_num, response_to,
               msg.code, msg.data)

\* A message of the device is reassembled by _notification_handler and
\* decoded by _parse_input.
Deliver(msg, seq_num, response_to) ==
    /\ CanDeliver(msg)
    /\ Step(Delivered(msg, seq_num, response_to))

\* The link goes down (the device is out of range, or resets).
LinkDrop ==
    /\ link # 0
    /\ Step([Cur EXCEPT !.link = 0, !.notify = 0])

\* The response_to of an inbound message: none, the sequence number of a
\* pending future, or one that no future is pending at.
ResponseTos == {0, current_seq_num} \cup DOMAIN pending

(***************************************************************************)
(* The complete next-state relation: every public call, every resumption,  *)
(* every event of the transport.                                           *)
(***************************************************************************)
Next ==
    \/ \E adv \in Advertisements : Initialize(adv)
    \/ \E id \in DOMAIN UserDatapoints : GetOrCreate(id)
    \/ BeginUpdate
    \/ \E t \in UserTasks : EndUpdate(t)
    \/ \E t \in UserTasks, id \in DOMAIN UserDatapoints, v \in UserValues :
           SetValue(t, id, v)
    \/ \E t \in UserTasks : Connect(t)
    \/ \E t \in UserTasks : Disconnect(t)
    \/ \E t \in UserTasks : Update(t)
    \/ \E t \in UserTasks : ConnectLockGranted(t)
    \/ \E t \in UserTasks : ConnectDone(t)
    \/ \E t \in UserTasks : ConnectFail(t)
    \/ \E t \in UserTasks : NotifyDone(t)
    \/ \E t \in UserTasks : NotifyFail(t)
    \/ \E t \in UserTasks : StopNotifyDone(t)
    \/ \E t \in UserTasks : CloseDone(t)
    \/ \E t \in Tasks : OperationLockGranted(t)
    \/ \E t \in Tasks : WriteDone(t)
    \/ \E t \in UserTasks : ResponseReady(t)
    \/ \E t \in UserTasks : Timeout(t)
    \/ \E t \in ReplyTasks : ReplyRun(t)
    \/ \E msg \in DeviceMessages, n \in DeviceSeqNums, r \in ResponseTos :
           Deliver(msg, n, r)
    \/ LinkDrop

Spec == Init /\ [][Next]_vars

(***************************************************************************)
(* The session over a link that stays up: concurrent connect, disconnect   *)
(* and update calls, the automatic replies, response timeouts, and a       *)
(* device that sends any of DeviceMessages with any response_to.           *)
(***************************************************************************)
NextSend ==
    \/ Initialize(<<3>>)
    \/ \E t \in UserTasks : Connect(t)
    \/ \E t \in UserTasks : Disconnect(t)
    \/ \E t \in UserTasks : Update(t)
    \/ \E t \in UserTasks : ConnectLockGranted(t)
    \/ \E t \in UserTasks : ConnectDone(t)
    \/ \E t \in UserTasks : NotifyDone(t)
    \/ \E t \in UserTasks : StopNotifyDone(t)
    \/ \E t \in UserTasks : CloseDone(t)
    \/ \E t \in Tasks : OperationLockGranted(t)
    \/ \E t \in Tasks : WriteDone(t)
    \/ \E t \in UserTasks : ResponseReady(t)
    \/ \E t \in UserTasks : Timeout(t)
    \/ \E t \in ReplyTasks : ReplyRun(t)
    \/ \E msg \in DeviceMessages, n \in DeviceSeqNums, r \in ResponseTos :
           Deliver(msg, n, r)

SpecSend == Init /\ [][NextSend]_vars

(***************************************************************************)
(* The datapoint collection used by one caller at a time, over a link that *)
(* stays up to a device that accepts every request.                        *)
(***************************************************************************)
BatchCallers == {"u1"}

NextBatch ==
    \/ \E adv \in Advertisements : Initialize(adv)
    \/ \E id \in DOMAIN UserDatapoints : GetOrCreate(id)
    \/ BeginUpdate
    \/ \E t \in BatchCallers : EndUpdate(t)
    \/ \E t \in BatchCallers, id \in DOMAIN UserDatapoints, v \in UserValues :
           SetValue(t, id, v)
    \/ \E t \in BatchCallers : Disconnect(t)
    \/ \E t \in BatchCallers : ConnectDone(t)
    \/ \E t \in BatchCallers : NotifyDone(t)
    \/ \E t \in BatchCallers : StopNotifyDone(t)
    \/ \E t \in BatchCallers : CloseDone(t)
    \/ \E t \in BatchCallers : WriteDone(t)
    \/ \E t \in BatchCallers : ResponseReady(t)
    \/ \E msg \in AcceptingReplies, n \in DeviceSeqNums, r \in DOMAIN pending :
           Deliver(msg, n, r)

SpecBatch == Init /\ [][NextBatch]_vars

(***************************************************************************)
(* Concurrent connect() calls over a link that stays up, to a device that  *)
(* answers every request of the handshake with the accepting reply.        *)
(***************************************************************************)
HandshakeReplies == {InfoReply, PairReply(0)}

\* The device has received every packet of the pending request r and
\* answers it.
Answer(msg, seq_num, r) ==
    /\ msg.code = sent[pending[r]].msg.code
    /\ \A pn \in 0..(Len(sent[pending[r]].msg.parts) - 1) :
           \E p \in 1..Len(wire) : wire[p] = [m |-> pending[r], pn |-> pn]
    /\ Deliver(msg, seq_num, r)

NextConnect ==
    \/ Initialize(<<3>>)
    \/ \E t \in UserTasks : Connect(t)
    \/ \E t \in UserTasks : ConnectLockGranted(t)
    \/ \E t \in UserTasks : ConnectDone(t)
    \/ \E t \in UserTasks : NotifyDone(t)
    \/ \E t \in UserTasks : WriteDone(t)
    \/ \E t \in UserTasks : ResponseReady(t)
    \/ \E msg \in HandshakeReplies, n \in DeviceSeqNums, r \in DOMAIN pending :
           Answer(msg, n, r)

SpecConnect == Init /\ [][NextConnect]_vars

\* The call in slot t resumes: the lock it waits for is handed to it, the
\* call of the transport it waits for returns, its future is resolved or
\* RESPONSE_WAIT_TIMEOUT passes.
Resume(t) ==
    \/ ConnectLockGranted(t)
    \/ ConnectDone(t)
    \/ NotifyDone(t)
    \/ StopNotifyDone(t)
    \/ CloseDone(t)
    \/ OperationLockGranted(t)
    \/ WriteDone(t)
    \/ ResponseReady(t)
    \/ Timeout(t)

\* The scheduling of the event loop: a task that can resume is resumed, the
\* calls of the transport return, and RESPONSE_WAIT_TIMEOUT passes.
Scheduling == \A t \in UserTasks : WF_vars(Resume(t))

\* Two concurrent calls of connect(), disconnect() and update() to a device
\* that answers a request with the accepting reply, refuses the pairing, or
\* does not answer at all.
NextLive ==
    \/ Initialize(<<3>>)
    \/ \E t \in UserTasks : calls < LiveCalls /\ Connect(t)
    \/ \E t \in UserTasks : calls < LiveCalls /\ Disconnect(t)
    \/ \E t \in UserTasks : calls < LiveCalls /\ Update(t)
    \/ \E t \in UserTasks : Resume(t)
    \/ \E msg \in {InfoReply, PairReply(0), PairReply(1), StatusReply(0)},
          n \in DeviceSeqNums, r \in DOMAIN pending :
           Answer(msg, n, r)

SpecLive == Init /\ [][NextLive]_vars /\ Scheduling

(***************************************************************************)
(* The handshake of devices whose credentials have other lengths than      *)
(* those of Credentials.                                                   *)
(***************************************************************************)
\* n characters, different at each position.
Chars(n) == [i \in 1..n |-> 65 + (i % 26)]

\* The credentials a manager can return: the lengths of uuid, local_key and
\* device_id.
CredentialSets ==
    {[uuid |-> Chars(u), local_key |-> Chars(k), device_id |-> Chars(d)] :
        u \in {0, 16, 20}, k \in {3, 8}, d \in {20, 22, 23}}

NextPair ==
    \/ \E cred \in CredentialSets : InitializeWith(cred, <<3>>)
    \/ \E t \in BatchCallers : Connect(t)
    \/ \E t \in BatchCallers : ConnectDone(t)
    \/ \E t \in BatchCallers : NotifyDone(t)
    \/ \E t \in BatchCallers : WriteDone(t)
    \/ \E t \in BatchCallers : ResponseReady(t)
    \/ \E msg \in HandshakeReplies, n \in DeviceSeqNums, r \in DOMAIN pending :
           Answer(msg, n, r)

SpecPair == Init /\ [][NextPair]_vars

(***************************************************************************)
(* The callback lists: callbacks are registered and the functions that the *)
(* registrations returned are called, any number of times.  removers holds *)
(* those functions in the order they were returned: the list and the       *)
(* callback each one is bound to, and whether it has been called.          *)
(***************************************************************************)
CallbackKinds == {"datapoint", "connected", "disconnected"}

\* The callables the user registers.
UserCallbacks == {"cb1", "cb2"}

\* register_callback, register_connected_callback and
\* register_disconnected_callback: the callback is appended and the closure
\* unregister_callback returned.
RegisterCallback(kind, cb) ==
    /\ Len(removers) < MaxRegs
    /\ Becomes([Cur EXCEPT
           !.callbacks[kind] = Append(@, cb),
           !.removers = Append(@, [kind |-> kind, cb |-> cb, called |-> FALSE])])

\* The closure unregister_callback: list.remove(callback) removes the first
\* occurrence and raises ValueError when there is none.
Unregister(s, i) ==
    IF InList(s.callbacks[s.removers[i].kind], s.removers[i].cb)
    THEN [s EXCEPT !.callbacks[s.removers[i].kind] = ListRemove(@, s.removers[i].cb),
                   !.removers[i].called = TRUE,
                   !.returned = [NoCall EXCEPT !.op = "unregister", !.ret = "ok"]]
    ELSE [s EXCEPT !.removers[i].called = TRUE,
                   !.returned = [NoCall EXCEPT !.op = "unregister",
                                               !.ret = "ValueError"]]

\* The user calls the i-th function returned.
CallRemover(i) ==
    /\ i \in 1..Len(removers)
    /\ Becomes(Unregister(Cur, i))

NextCallbacks ==
    \/ \E kind \in CallbackKinds, cb \in UserCallbacks : RegisterCallback(kind, cb)
    \/ \E i \in 1..MaxRegs : CallRemover(i)

SpecCallbacks == Init /\ [][NextCallbacks]_vars

(***************************************************************************)
(* The datapoints of a connected and paired device that reports on its own *)
(* while one caller writes.  The behaviour starts where initialize() and   *)
(* connect() have returned (the last state of the handshake of SpecConnect *)
(* with its two messages written and answered); the logs of sent messages, *)
(* written packets and returned calls start there.                         *)
(***************************************************************************)
InitPaired ==
    /\ device_info = <<Credentials>>
    /\ local_key = SubSeq(Credentials.local_key, 1, 6)
    /\ login_key = MD5(SubSeq(Credentials.local_key, 1, 6))
    /\ session_key = MD5(SubSeq(Credentials.local_key, 1, 6)
                         \o Slice(InfoReply.data, 6, 12))
    /\ protocol_version = InfoReply.data[3]
    /\ client = 1
    /\ expected_disconnect = FALSE
    /\ current_seq_num = 3
    /\ is_paired = TRUE
    /\ pending = EmptyMap
    /\ operation_lock = <<>>
    /\ connect_lock = <<>>
    /\ datapoints = EmptyMap
    /\ update_started = 0
    /\ updated_datapoints = <<>>
    /\ link = 1
    /\ notify = 1
    /\ clients = 1
    /\ task = [t \in Tasks |-> IF t \in UserTasks THEN IdleTask ELSE FreeTask]
    /\ fut = EmptyMap
    /\ sent = <<>>
    /\ wire = <<>>
    /\ returned = NoCall
    /\ calls = 0
    /\ inbound = 0
    /\ connected_fired = 1
    /\ disconnected_fired = 0
    /\ input_buffer = PyNone
    /\ input_expected_packet_num = 0
    /\ input_expected_length = 0
    /\ feed = <<>>
    /\ fed = <<>>
    /\ original = <<>>
    /\ handed = <<>>
    /\ dp_callbacks = <<>>
    /\ callbacks = NoCallbacks
    /\ removers = <<>>
    /\ codec = NoCodec

\* The 13 ASCII digits of 5000 milliseconds.
Digits5000 == <<48, 48, 48, 48, 48, 48, 48, 48, 48, 53, 48, 48, 48>>

\* What the device reports: datapoints in the four message forms, the two
\* time requests, and a datapoint of a type that does not exist.
DeviceReports ==
    {Msg(5, FUN_RECEIVE_DP, <<1, DT_BOOL, 1, 1>>),
     Msg(5, FUN_RECEIVE_DP, <<1, DT_VALUE, 4, 0, 0, 0, 7>>),
     Msg(5, FUN_RECEIVE_DP, <<4, DT_ENUM, 1, 200>>),
     Msg(5, FUN_RECEIVE_DP, <<4, DT_ENUM, 1, 5, 1, DT_BOOL, 1, 0>>),
     Msg(5, FUN_RECEIVE_DP, <<1, DT_BOOL, 1, 1, 3, DT_STRING, 0>>),
     Msg(5, FUN_RECEIVE_DP, <<1, 9, 1, 1>>),
     Msg(5, FUN_RECEIVE_TIME_DP, <<1, 0, 0, 0, 5, 1, DT_BOOL, 1, 1>>),
     Msg(5, FUN_RECEIVE_TIME_DP, <<0>> \o Digits5000 \o <<1, DT_BOOL, 1, 1>>),
     Msg(5, FUN_RECEIVE_SIGN_DP, <<0, 5, 2, 1, DT_BOOL, 1, 1>>),
     Msg(5, FUN_RECEIVE_SIGN_TIME_DP,
         <<0, 5, 2, 1, 0, 0, 0, 5, 1, DT_BOOL, 1, 1>>),
     Msg(5, FUN_RECEIVE_TIME1_REQ, <<>>),
     Msg(5, FUN_RECEIVE_TIME2_REQ, <<>>)}

\* The device reports and its messages are answered; no caller is active.
NextReport ==
    \/ \E t \in ReplyTasks : ReplyRun(t)
    \/ \E t \in ReplyTasks : WriteDone(t)
    \/ \E msg \in DeviceReports, n \in DeviceSeqNums : Deliver(msg, n, 0)

SpecReport == InitPaired /\ [][NextReport]_vars

(***************************************************************************)
(* One caller writes datapoints, singly and in batches, while the device   *)
(* reports an ENUM and a BOOL datapoint and answers what is written.       *)
(***************************************************************************)
\* What the device reports here: an ENUM datapoint with the bytes 200 and 5,
\* and a BOOL datapoint.
EnumReports ==
    {Msg(5, FUN_RECEIVE_DP, <<4, DT_ENUM, 1, 200>>),
     Msg(5, FUN_RECEIVE_DP, <<4, DT_ENUM, 1, 5>>),
     Msg(5, FUN_RECEIVE_DP, <<1, DT_BOOL, 1, 1>>)}

\* The values the caller passes to set_value.
ReportValues == {PyBool(TRUE), PyInt(200), PyInt(-1)}

NextEnum ==
    \/ BeginUpdate
    \/ \E t \in BatchCallers : EndUpdate(t)
    \/ \E t \in BatchCallers, id \in DOMAIN datapoints, v \in ReportValues :
           SetValue(t, id, v)
    \/ \E t \in Tasks : OperationLockGranted(t)
    \/ \E t \in Tasks : WriteDone(t)
    \/ \E t \in BatchCallers : ResponseReady(t)
    \/ \E t \in ReplyTasks : ReplyRun(t)
    \/ \E n \in DeviceSeqNums, r \in DOMAIN pending : Answer(DpsReply, n, r)
    \/ \E msg \in EnumReports, n \in DeviceSeqNums : Deliver(msg, n, 0)

SpecEnum == InitPaired /\ [][NextEnum]_vars

(***************************************************************************)
(* One datapoint collection used by two callers at a time, after the       *)
(* handshake, over a link that stays up to a device that accepts every     *)
(* request.                                                                *)
(***************************************************************************)
\* The callers pass True and 10 to set_value.
NextShared ==
    \/ \E id \in DOMAIN UserDatapoints : GetOrCreate(id)
    \/ BeginUpdate
    \/ \E t \in UserTasks : EndUpdate(t)
    \/ \E t \in UserTasks, id \in DOMAIN UserDatapoints,
          v \in {PyBool(TRUE), PyInt(10)} :
           SetValue(t, id, v)
    \/ \E t \in UserTasks : OperationLockGranted(t)
    \/ \E t \in UserTasks : WriteDone(t)
    \/ \E t \in UserTasks : ResponseReady(t)
    \/ \E n \in DeviceSeqNums, r \in DOMAIN pending : Answer(DpsReply, n, r)

SpecShared == InitPaired /\ [][NextShared]_vars

(***************************************************************************)
(* The reassembler fed with the packets of one encrypted buffer: in order, *)
(* with one packet lost, with two packets swapped, with one packet         *)
(* delivered twice, or with a malformed notification among them.           *)
(***************************************************************************)
\* An encrypted buffer of n bytes: the bytes differ with their position.
Buffer(n) == [i \in 1..n |-> (i * 37) % 256]

Buffers == {Buffer(n) : n \in 1..MaxBufLen}

\* The sequence f without its element i.
RemoveAt(f, i) == SubSeq(f, 1, i - 1) \o SubSeq(f, i + 1, Len(f))

DropOne(f) == {RemoveAt(f, i) : i \in 1..Len(f)}

SwapTwo(f) ==
    {[k \in 1..Len(f) |-> IF k = i THEN f[j] ELSE IF k = j THEN f[i] ELSE f[k]] :
        i \in 1..Len(f), j \in 1..Len(f)} \ {f}

RepeatOne(f) ==
    {SubSeq(f, 1, i) \o SubSeq(f, i, Len(f)) : i \in 1..Len(f)}

\* A notification that _unpack_int rejects: the packet number announces a
\* second byte and the data ends.
BadPacket == <<128>>

InsertBad(f) ==
    {SubSeq(f, 1, i) \o <<BadPacket>> \o SubSeq(f, i + 1, Len(f)) :
        i \in 0..Len(f)}

\* The packets of the buffer as the device sends them (its protocol version
\* byte is not read by the reassembler).
DevicePackets(buffer) == Fragment(buffer, 3)

Feeds(buffer) ==
    LET f == DevicePackets(buffer)
    IN {f} \cup DropOne(f) \cup SwapTwo(f) \cup RepeatOne(f) \cup InsertBad(f)

InitFrag == \E buffer \in Buffers : \E f \in Feeds(buffer) : InitDevice(buffer, f)

\* The transport calls _notification_handler with the next packet.
Notification ==
    /\ feed # <<>>
    /\ Becomes([NotificationHandler(Cur, Head(feed)) EXCEPT
                   !.feed = Tail(feed),
                   !.fed = Append(fed, Head(feed))])

NextFrag == Notification

SpecFrag == InitFrag /\ [][NextFrag]_vars

\* The call of _build_packets is at its loop, with nothing made yet.  The
\* encrypted message that is cut into packets holds the security flag, the
\* iv and whole blocks of cipher text.
InitBuild ==
    /\ InitFields(<<>>, <<>>)
    /\ \E length \in {17 + 16 * blocks : blocks \in {1, 2, 3, 151, 152, 153}} :
           codec = [fn |-> "build", length |-> length, version |-> 3,
                    pos |-> 0, packet_num |-> 0, packets |-> <<>>]

\* One pass of the loop of _build_packets.
BuildLoop ==
    /\ codec.fn = "build"
    /\ codec.pos < codec.length
    /\ LET encrypted == Buffer(codec.length)
           packet == PacketHeader(codec.packet_num, codec.length, codec.version)
           data_part == DataPart(encrypted, codec.pos, codec.packet_num,
                                 codec.version)
       IN Becomes([Cur EXCEPT !.codec.packets = Append(@, packet \o data_part),
                              !.codec.pos = @ + Len(data_part),
                              !.codec.packet_num = @ + 1])

\* The loop of _build_packets ends and the packets are returned.
BuildReturn ==
    /\ codec.fn = "build"
    /\ codec.pos >= codec.length
    /\ Becomes([Cur EXCEPT !.codec.fn = "built"])

NextBuild == BuildLoop \/ BuildReturn

SpecBuild == InitBuild /\ [][NextBuild]_vars

(***************************************************************************)
(* The codec on bytes: _calc_crc16, the raw packet of _build_packets and   *)
(* _parse_input.  AES in CBC mode stands as an invertible function of the  *)
(* key and the iv: each block is xored with the block before it (the iv    *)
(* for the first) and the key is added bytewise.                           *)
(***************************************************************************)
\* a ^ b on values of 16 bits; bit(p) is the bit of weight p.
BitXor(a, b) ==
    LET bit(p) == (((a \div p) + (b \div p)) % 2) * p
    IN bit(1) + bit(2) + bit(4) + bit(8) + bit(16) + bit(32) + bit(64)
       + bit(128) + bit(256) + bit(512) + bit(1024) + bit(2048) + bit(4096)
       + bit(8192) + bit(16384) + bit(32768)

\* for _ in range(8): tmp = crc & 1; crc >>= 1; if tmp != 0: crc ^= 0xA001
CrcShift8(crc) ==
    LET CrcShift(c) == IF c % 2 # 0 THEN BitXor(c \div 2, 40961) ELSE c \div 2
    IN CrcShift(CrcShift(CrcShift(CrcShift(CrcShift(CrcShift(CrcShift(CrcShift(
           crc))))))))

\* for byte in data: crc ^= byte & 255, then the eight shifts.  crc stays
\* within 16 bits.
RECURSIVE CrcLoop(_, _, _)
CrcLoop(crc, data, i) ==
    IF crc \in 0..65535 /\ i <= Len(data)
    THEN CrcLoop(CrcShift8(BitXor(crc, data[i] % 256)), data, i + 1)
    ELSE crc

\* _calc_crc16
CalcCrc16(data) == CrcLoop(65535, data, 1)

\* pack(">IIHH", seq_num, response_to, code.value, len(data)) + data
RawPacket(seq_num, response_to, code, data) ==
    BigEndian(seq_num, 4) \o BigEndian(response_to, 4) \o BigEndian(code, 2)
    \o BigEndian(Len(data), 2) \o data

BlockEncrypt(key, block) == [j \in 1..16 |-> (block[j] + key[j]) % 256]

BlockDecrypt(key, block) == [j \in 1..16 |-> (block[j] + 256 - key[j]) % 256]

XorBlock(a, b) == [j \in 1..16 |-> BitXor(a[j], b[j])]

\* AES.new(key, AES.MODE_CBC, iv).encrypt(raw); prev is the iv.
RECURSIVE CbcEncrypt(_, _, _)
CbcEncrypt(key, prev, raw) ==
    IF raw = <<>> THEN <<>>
    ELSE LET block == BlockEncrypt(key, XorBlock(SubSeq(raw, 1, 16), prev))
         IN block \o CbcEncrypt(key, block, SubSeq(raw, 17, Len(raw)))

\* AES.new(key, AES.MODE_CBC, iv).decrypt(encrypted); prev is the iv.
RECURSIVE CbcDecrypt(_, _, _)
CbcDecrypt(key, prev, encrypted) ==
    IF encrypted = <<>> THEN <<>>
    ELSE LET block == SubSeq(encrypted, 1, 16)
         IN XorBlock(BlockDecrypt(key, block), prev)
            \o CbcDecrypt(key, block, SubSeq(encrypted, 17, Len(encrypted)))

\* The padded plaintext of _build_packets: raw += pack(">H", crc), then
\* while len(raw) % 16 != 0: raw += b"\x00".
PaddedRaw(seq_num, response_to, code, data) ==
    LET raw == RawPacket(seq_num, response_to, code, data)
        with_crc == raw \o BigEndian(CalcCrc16(raw), 2)
    IN with_crc \o Zeros((16 - (Len(with_crc) % 16)) % 16)

\* encrypted of _build_packets: security_flag + iv + cipher.encrypt(raw).
\* keys holds login_key and session_key.
Encrypted(keys, iv, seq_num, code, data, response_to) ==
    <<SelectKey(keys, code).security_flag>> \o iv
    \o CbcEncrypt(SelectKey(keys, code).key, iv,
                  PaddedRaw(seq_num, response_to, code, data))

\* A variant of raw[12:data_end_pos] that runs to the end of raw.
DataOfToEnd(raw, data_end_pos) == Slice(raw, 12, Len(raw))

\* data = raw[12:data_end_pos]
DataOf(raw, data_end_pos) == Slice(raw, 12, data_end_pos)

NoParse == [err |-> "none", seq_num |-> 0, response_to |-> 0, code |-> 0,
            data |-> <<>>]

\* _parse_input on the bytes of _input_buffer, up to the point where the
\* opcode is looked up.
ParseInputBytes(keys, buffer) ==
    LET key == GetKey(keys, buffer[1])
        iv == Slice(buffer, 1, 17)
        raw == CbcDecrypt(key, iv, Slice(buffer, 17, Len(buffer)))
        length == FromBytesBig(Slice(raw, 10, 12))
        data_end_pos == length + 12
    IN IF Len(raw) < data_end_pos
       THEN [NoParse EXCEPT !.err = "TuyaBLEDataLengthError"]
       ELSE IF Len(raw) = data_end_pos + 1
       THEN [NoParse EXCEPT !.err = "struct.error"]
       ELSE IF Len(raw) > data_end_pos
               /\ CalcCrc16(Slice(raw, 0, data_end_pos))
                      # FromBytesBig(Slice(raw, data_end_pos, data_end_pos + 2))
       THEN [NoParse EXCEPT !.err = "TuyaBLEDataCRCError"]
       ELSE [err |-> "none",
             seq_num |-> FromBytesBig(Slice(raw, 0, 4)),
             response_to |-> FromBytesBig(Slice(raw, 4, 8)),
             code |-> FromBytesBig(Slice(raw, 8, 10)),
             data |-> DataOf(raw, data_end_pos)]

\* A message is about to be encoded, with keys of 16 bytes, an
\* initialisation vector, and the fields of the message.
InitCodec ==
    /\ InitFields(<<>>, <<>>)
    /\ \E keys \in {[login_key |-> [j \in 1..16 |-> (j * 11) % 256],
                      session_key |-> [j \in 1..16 |-> (j * 29 + 200) % 256]],
                     [login_key |-> [j \in 1..16 |-> 255],
                      session_key |-> [j \in 1..16 |-> 0]]},
          iv \in {[j \in 1..16 |-> 0], [j \in 1..16 |-> (j * 53 + 7) % 256]},
          seq_num \in {1, 258, 2147483647},
          response_to \in {0, 65537},
          code \in {FUN_SENDER_DEVICE_INFO, FUN_SENDER_DPS, FUN_RECEIVE_DP},
          data \in {Buffer(n) : n \in {0, 1, 2, 3, 18, 19}} :
           codec = [fn |-> "encode", login_key |-> keys.login_key,
                    session_key |-> keys.session_key, iv |-> iv,
                    seq_num |-> seq_num, response_to |-> response_to,
                    code |-> code, data |-> data, buffer |-> <<>>,
                    damaged |-> FALSE, parsed |-> NoParse]

\* _build_packets up to encrypted.
EncodeMessage ==
    /\ codec.fn = "encode"
    /\ Becomes([Cur EXCEPT
           !.codec.fn = "encoded",
           !.codec.buffer = Encrypted(codec, codec.iv, codec.seq_num, codec.code,
                                      codec.data, codec.response_to)])

\* The transport damages one byte of the data or of the CRC in the last
\* block of the cipher text (the change stays within that byte).
DamageByte(p, d) ==
    /\ codec.fn = "encoded"
    /\ ~codec.damaged
    /\ p > 17 + 12 /\ p <= 17 + 12 + Len(codec.data) + 2
    /\ p > Len(codec.buffer) - 16
    /\ Becomes([Cur EXCEPT !.codec.buffer[p] = (@ + d) % 256,
                           !.codec.damaged = TRUE])

\* _parse_input on the buffer.
DecodeMessage ==
    /\ codec.fn = "encoded"
    /\ Becomes([Cur EXCEPT
           !.codec.fn = "decoded",
           !.codec.parsed = ParseInputBytes(codec, codec.buffer)])

NextCodec ==
    \/ EncodeMessage
    \/ \E p \in 1..64, d \in {1, 128} : DamageByte(p, d)
    \/ DecodeMessage

SpecCodec == InitCodec /\ [][NextCodec]_vars

(***************************************************************************)
(* _pack_int and _unpack_int applied to a value: the encoding is placed    *)
(* after start_pos bytes of other data.                                    *)
(***************************************************************************)
\* The values are at the edges of the encodings of one to five bytes.
InitVarint ==
    /\ InitFields(<<>>, <<>>)
    /\ \E value \in (0..20) \cup {127, 128, 300, 16383, 16384, 2097151,
                                   2097152, 268435455, 268435456, 2147483647},
          start_pos \in {0, 2} :
           codec = [fn |-> "pack", value |-> value, start_pos |-> start_pos,
                    data |-> <<>>, cut |-> FALSE,
                    unpacked |-> [err |-> "none", result |-> 0, pos |-> 0]]

\* _pack_int(value), after start_pos bytes.
PackValue ==
    /\ codec.fn = "pack"
    /\ Becomes([Cur EXCEPT
           !.codec.fn = "packed",
           !.codec.data = Buffer(codec.start_pos) \o PackInt(codec.value)])

\* The data ends one byte early.
CutOff ==
    /\ codec.fn = "packed"
    /\ ~codec.cut
    /\ Becomes([Cur EXCEPT
           !.codec.data = SubSeq(@, 1, Len(@) - 1),
           !.codec.cut = TRUE])

\* _unpack_int(data, start_pos)
UnpackValue ==
    /\ codec.fn = "packed"
    /\ Becomes([Cur EXCEPT
           !.codec.fn = "unpacked",
           !.codec.unpacked = UnpackInt(codec.data, codec.start_pos)])

NextVarint == PackValue \/ CutOff \/ UnpackValue

SpecVarint == InitVarint /\ [][NextVarint]_vars

(***************************************************************************)
(* Properties.                                                             *)
(***************************************************************************)
\* The ids a SENDER_DPS body lists, in order: each datapoint is id, type,
\* length, value.
RECURSIVE BodyIds(_)
BodyIds(body) ==
    IF Len(body) < 3 THEN <<>>
    ELSE <<body[1]>> \o BodyIds(SubSeq(body, 4 + body[3], Len(body)))

\* The ids the call in slot t has passed to _send_datapoints (<<>>: none),
\* whether the call is still running or has just returned.
RequestedIds(t) ==
    IF task[t].pc = "idle"
    THEN IF returned.t = t THEN returned.ids ELSE <<>>
    ELSE task[t].ids

\* The device takes requests: connected, paired, not shut down by
\* disconnect(), and speaking protocol version 3.
Operational ==
    IsConnected(Cur) /\ is_paired /\ ~expected_disconnect /\ protocol_version = 3

\* Every packet of message m has been written.
FullyWritten(m) ==
    \A pn \in 0..(Len(sent[m].msg.parts) - 1) :
        \E p \in 1..Len(wire) : wire[p] = [m |-> m, pn |-> pn]

\* The step appends one SENDER_DPS message that lists exactly ids and, the
\* operation lock being free, writes its first packet.
DpsSendStarts(ids) ==
    /\ Len(sent') = Len(sent) + 1
    /\ sent'[Len(sent')].msg.code = FUN_SENDER_DPS
    /\ BodyIds(sent'[Len(sent')].msg.body) = ids
    /\ operation_lock = <<>> =>
           wire' = Append(wire, [m |-> Len(sent'), pn |-> 0])

\* The call of the step only edited the batch state: it has returned and
\* nothing was sent or asked to be sent.
NothingSent(t) ==
    /\ sent' = sent
    /\ wire' = wire
    /\ task'[t].pc = "idle"
    /\ RequestedIds(t)' = <<>>

\* C1: a set_value at batch counter 0 asks at once for the send of exactly
\* its own id (and on an operational device the SENDER_DPS message is
\* allocated in the same step); a set_value at a counter above 0 sends
\* nothing; an end_update sends the buffered ids only when it takes the
\* counter from 1 to 0; an end_update at counter 0 changes nothing and the
\* counter never goes below 0.
BatchSemantics ==
    [][\A t \in UserTasks :
          /\ \A id \in DOMAIN UserDatapoints, v \in UserValues :
                SetValue(t, id, v) =>
                    IF update_started > 0
                    THEN NothingSent(t) /\ update_started' = update_started
                    ELSE /\ RequestedIds(t)' = <<id>>
                         /\ Operational => DpsSendStarts(<<id>>)
          /\ EndUpdate(t) =>
                /\ update_started' >= 0
                /\ update_started' =
                       IF update_started > 0 THEN update_started - 1 ELSE 0
                /\ IF update_started = 1 /\ updated_datapoints # <<>>
                   THEN /\ RequestedIds(t)' = updated_datapoints
                        /\ Operational => DpsSendStarts(updated_datapoints)
                   ELSE NothingSent(t)
                /\ update_started = 0 =>
                       /\ updated_datapoints' = updated_datapoints
                       /\ datapoints' = datapoints]_vars

\* An outermost end_update has flushed two buffered ids in one message, all
\* of it written, and has returned.
BatchSemanticsWitness ==
    /\ returned.op = "end_update"
    /\ returned.ret = "ok"
    /\ returned.m # 0
    /\ update_started = 0
    /\ Len(returned.ids) = 2
    /\ sent[returned.m].msg.code = FUN_SENDER_DPS
    /\ FullyWritten(returned.m)

NoDuplicates(list) ==
    \A i, j \in 1..Len(list) : i # j => list[i] # list[j]

Without(list, x) == SelectSeq(list, LAMBDA y : y # x)

\* C2: the dirty buffer never holds an id twice; a set_value inside a batch
\* moves its id to the tail and keeps the order of the others; the flush
\* sends one SENDER_DPS message that lists the buffered ids in buffer order
\* with the values last written.
LastWriteOrder ==
    [][/\ NoDuplicates(updated_datapoints')
       /\ \A t \in UserTasks :
             /\ \A id \in DOMAIN UserDatapoints, v \in UserValues :
                   SetValue(t, id, v) /\ update_started > 0 =>
                       /\ updated_datapoints' =
                              Append(Without(updated_datapoints, id), id)
                       /\ PyEq(datapoints'[id].value,
                               SetCoerce(datapoints[id].type, v).value)
             /\ EndUpdate(t) /\ update_started = 1
                   /\ updated_datapoints # <<>> /\ Operational =>
                       /\ DpsSendStarts(updated_datapoints)
                       /\ sent'[Len(sent')].msg.body =
                              DpsBody(datapoints, updated_datapoints).b]_vars

\* begin; set dp1 true; set dp2 10; set dp1 false; end: one message, dp2
\* then dp1, dp1 with value 0, all of it written.
LastWriteOrderWitness ==
    \E m \in 1..Len(sent) :
        /\ sent[m].msg.code = FUN_SENDER_DPS
        /\ sent[m].msg.body = <<2, DT_VALUE, 4, 0, 0, 0, 10, 1, DT_BOOL, 1, 0>>
        /\ FullyWritten(m)
        /\ \A k \in 1..Len(sent) : sent[k].msg.code = FUN_SENDER_DPS => k = m

\* C3: a set_value outside a batch, or an outermost end_update, that has
\* returned without raising has had a SENDER_DPS message with its ids
\* written in full.
SetReturnsWritten ==
    (returned.op \in {"set_value", "end_update"}
        /\ returned.ret = "ok" /\ returned.ids # <<>>) =>
        /\ returned.m # 0
        /\ sent[returned.m].msg.code = FUN_SENDER_DPS
        /\ BodyIds(sent[returned.m].msg.body) = returned.ids
        /\ FullyWritten(returned.m)

\* C4: within a session (the messages of one client object) every message
\* carries the sequence number of the one before it plus 1, and no two
\* carry the same one.
SeqNumsConsecutive ==
    /\ \A i \in 1..(Len(sent) - 1) :
          sent[i + 1].ep = sent[i].ep =>
              sent[i + 1].msg.seq = sent[i].msg.seq + 1
    /\ \A i, j \in 1..Len(sent) :
          (i # j /\ sent[i].ep = sent[j].ep) => sent[i].msg.seq # sent[j].msg.seq

\* Two senders at once: one writes its message while the other, its
\* sequence number allocated, waits for the operation lock.
SeqNumsConsecutiveWitness ==
    \E t1, t2 \in Tasks :
        /\ task[t1].pc = "writing"
        /\ task[t2].pc = "op_wait"
        /\ sent[task[t1].m].ep = sent[task[t2].m].ep
        /\ sent[task[t2].m].msg.seq = sent[task[t1].m].msg.seq + 1

\* C5: when connect() has gone through the handshake and returned with the
\* device connected and paired, the device-info request of this connection
\* carried sequence number 1.
ConnectStartsAtOne ==
    (returned.op = "connect" /\ returned.ret = "ok" /\ returned.m # 0
        /\ sent[returned.m].msg.code = FUN_SENDER_PAIR
        /\ sent[returned.m].ep = client
        /\ IsConnected(Cur) /\ is_paired) =>
        \A i \in 1..Len(sent) :
            (sent[i].ep = client /\ sent[i].msg.code = FUN_SENDER_DEVICE_INFO)
                => sent[i].msg.seq = 1

\* C6: packets appear on the wire in the order their messages' sequence
\* numbers were allocated: no packet of a message follows a packet of a
\* message of the same session with a greater sequence number.
WireInAllocationOrder ==
    \A p, q \in 1..Len(wire) :
        (p < q /\ sent[wire[p].m].ep = sent[wire[q].m].ep) =>
            sent[wire[p].m].msg.seq <= sent[wire[q].m].msg.seq

\* Two messages of different tasks, sent after the handshake, are both on
\* the wire in full.
WireInAllocationOrderWitness ==
    \E m1, m2 \in 1..Len(sent) :
        /\ m1 < m2
        /\ sent[m1].by # sent[m2].by
        /\ sent[m1].ep = sent[m2].ep
        /\ sent[m1].msg.code \notin {FUN_SENDER_DEVICE_INFO, FUN_SENDER_PAIR}
        /\ FullyWritten(m1)
        /\ FullyWritten(m2)

\* C7: the packets of one message are written one after the other, by
\* packet_num 0, 1, 2, ...: no packet of another message lies between them.
NoInterleaving ==
    \A p, q \in 1..Len(wire) :
        /\ (p < q /\ wire[p].m = wire[q].m) => wire[q].pn = wire[p].pn + (q - p)
        /\ (\A k \in 1..(p - 1) : wire[k].m # wire[p].m) => wire[p].pn = 0

\* A task is in the middle of its message while another one waits for the
\* operation lock.
NoInterleavingWitness ==
    \E t1, t2 \in Tasks :
        /\ task[t1].pc = "writing"
        /\ task[t1].next >= 2
        /\ task[t1].next < Len(sent[task[t1].m].msg.parts)
        /\ task[t2].pc = "op_wait"

\* The handler of the message's opcode takes it: the opcode is known and
\* the body has the form the handler requires.
Accepted(msg) ==
    /\ msg.code \in TuyaBLECode
    /\ Dispatch(Cur, 0, msg.code, msg.data).err = "none"

\* The result byte of a reply: the body of a PAIR reply (2, already paired,
\* counts as 0) or of a DEVICE_STATUS reply; the other replies carry none.
ResultByte(msg) ==
    CASE msg.code = FUN_SENDER_PAIR ->
            IF msg.data[1] = 2 THEN 0 ELSE msg.data[1]
      [] msg.code = FUN_SENDER_DEVICE_STATUS -> msg.data[1]
      [] OTHER -> 0

\* In s2, the state after msg was decoded, the future that was pending at
\* r is removed and resolved by the result byte; the futures pending at
\* other sequence numbers are as they were.
ResolvesOnly(s2, msg, r) ==
    LET m == pending[r]
    IN /\ r \notin DOMAIN s2.pending
       /\ fut[m].st = "pending"
       /\ s2.fut[m] = IF ResultByte(msg) = 0
                      THEN [st |-> "ok", code |-> 0]
                      ELSE [st |-> "error", code |-> ResultByte(msg)]
       /\ \A r2 \in DOMAIN pending \ {r} :
             /\ r2 \in DOMAIN s2.pending
             /\ s2.pending[r2] = pending[r2]
             /\ s2.fut[pending[r2]] = fut[pending[r2]]

\* A future that is resolved is no longer in the pending map (nothing can
\* resolve it again), and its awaiter, when it runs, sees the device error
\* raised with its code, or no device error.
ResolvedOnce ==
    /\ \A m \in DOMAIN fut :
          fut[m].st # "pending" =>
              \A r \in DOMAIN pending : pending[r] # m
    /\ \A t \in UserTasks :
          (task[t].pc = "await_resp" /\ fut[task[t].m].st # "pending") =>
              LET s2 == FutureDone(Cur, t)
              IN IF fut[task[t].m].st = "error"
                 THEN /\ s2.task[t].pc = "idle"
                      /\ s2.returned.t = t
                      /\ s2.returned.ret = "DeviceError"
                      /\ s2.returned.retcode = fut[task[t].m].code
                 ELSE ~(s2.task[t].pc = "idle"
                            /\ s2.returned.ret = "DeviceError")

\* C8, as the code has it: an inbound message with response_to = r # 0 that
\* the handler of its opcode accepts, decoded while a future is pending at
\* r, removes that future and resolves it once, by its result byte; the
\* awaiter sees the device error; other awaiters are unaffected.
AcceptedResponseResolves ==
    /\ \A msg \in DeviceMessages, n \in DeviceSeqNums, r \in DOMAIN pending :
          (CanDeliver(msg) /\ r # 0 /\ Accepted(msg)) =>
              ResolvesOnly(Delivered(msg, n, r), msg, r)
    /\ ResolvedOnce

\* C8, as stated: the same of every inbound message that is decoded.
DecodedResponseResolves ==
    /\ \A msg \in DeviceMessages, n \in DeviceSeqNums, r \in DOMAIN pending :
          (CanDeliver(msg) /\ r # 0) =>
              ResolvesOnly(Delivered(msg, n, r), msg, r)
    /\ ResolvedOnce

\* A reply has resolved the future of one awaiter with a device error while
\* the future of another awaiter is still pending.
AcceptedResponseResolvesWitness ==
    \E t1, t2 \in UserTasks :
        /\ task[t1].pc = "await_resp"
        /\ task[t2].pc = "await_resp"
        /\ fut[task[t1].m].st = "error"
        /\ fut[task[t2].m].st = "pending"
        /\ sent[task[t1].m].msg.seq \notin DOMAIN pending
        /\ sent[task[t2].m].msg.seq \in DOMAIN pending

\* C9: when the response timeout of the awaited send of update() fires, its
\* future is removed from the pending map, the call ends with a timeout
\* error and the connection stays as it is.
TimeoutObserved ==
    [][\A t \in UserTasks :
          (Timeout(t) /\ task[t].op = "update" /\ task[t].stage = "main") =>
              /\ sent[task[t].m].msg.seq \notin DOMAIN pending'
              /\ link' = link
              /\ client' = client
              /\ task'[t].pc = "idle"
              /\ returned'.t = t
              /\ returned'.ret = "TimeoutError"]_vars

\* C10: an inbound message with an opcode of 0x8000 or above leaves the
\* pending map and the futures as they are, whatever its response_to.
DeviceCommandsKeepFutures ==
    [][inbound' # inbound =>
          \A msg \in DeviceMessages, n \in DeviceSeqNums, r \in ResponseTos :
              (Deliver(msg, n, r) /\ msg.code >= 32768) =>
                  (pending' = pending /\ fut' = fut)]_vars

\* The packets of message m, in order.
PacketsOf(m) == [pn \in 1..Len(sent[m].msg.parts) |-> [m |-> m, pn |-> pn - 1]]

\* The wire holds one handshake: every packet of the DEVICE_INFO request m,
\* then every packet of the PAIR request that follows it, of the same client.
OneHandshakeOnWire ==
    \E m \in 1..(Len(sent) - 1) :
        /\ sent[m].msg.code = FUN_SENDER_DEVICE_INFO
        /\ sent[m + 1].msg.code = FUN_SENDER_PAIR
        /\ sent[m].ep = client /\ sent[m + 1].ep = client
        /\ wire = PacketsOf(m) \o PacketsOf(m + 1)

ConnectOnceState ==
    /\ connected_fired <= 1
    /\ connected_fired = 1 => is_paired
    /\ \A p, q \in 1..Len(wire) :
           sent[wire[p].m].msg.code = sent[wire[q].m].msg.code =>
               wire[p].m = wire[q].m
    /\ (returned.op = "connect" /\ returned.ret = "ok") =>
           /\ IsConnected(Cur) /\ is_paired
           /\ (\A t \in UserTasks : task[t].pc = "idle") =>
                  OneHandshakeOnWire /\ connected_fired = 1

ConnectOnceStep ==
    /\ connected_fired' # connected_fired =>
           is_paired /\ connected_fired' = connected_fired + 1
    /\ \A t \in UserTasks :
           (Connect(t) /\ IsConnected(Cur) /\ is_paired) =>
               /\ wire' = wire /\ sent' = sent /\ clients' = clients
               /\ returned'.op = "connect" /\ returned'.ret = "ok"

\* C11: with a device that answers the handshake, concurrent connect() calls
\* perform one handshake in all (one DEVICE_INFO request, then one PAIR
\* request) and fire the connected callbacks once, when is_paired is set; a
\* connect() on a connected and paired device writes nothing and returns.
ConnectOnce == []ConnectOnceState /\ [][ConnectOnceStep]_vars

\* Two connect() calls ran at the same time and both have returned; a third
\* found the device connected and paired.
ConnectOnceWitness ==
    /\ calls = 3
    /\ \A t \in UserTasks : task[t].pc = "idle"
    /\ returned.op = "connect" /\ returned.ret = "ok" /\ returned.t = "u2"
    /\ OneHandshakeOnWire
    /\ connected_fired = 1

KeySelectionState ==
    /\ \A i \in 1..Len(sent) :
           IF sent[i].msg.code = FUN_SENDER_DEVICE_INFO
           THEN sent[i].msg.flag = 4 /\ sent[i].msg.key \in {NoKey, login_key}
           ELSE sent[i].msg.flag = 5
    /\ \A p \in 1..Len(wire) : sent[wire[p].m].msg.key # NoKey

KeySelectionStep ==
    /\ Len(sent') = Len(sent) + 1 =>
           sent'[Len(sent')].msg.key =
               IF sent'[Len(sent')].msg.code = FUN_SENDER_DEVICE_INFO
               THEN login_key ELSE session_key
    /\ (Len(wire') = Len(wire) + 1
           /\ sent'[wire'[Len(wire')].m].msg.code # FUN_SENDER_DEVICE_INFO) =>
           session_key # NoKey /\ sent'[wire'[Len(wire')].m].msg.key # NoKey

\* C12: a message is built under login_key with security flag 4 exactly when
\* its opcode is DEVICE_INFO, otherwise under session_key with flag 5, and a
\* packet of another opcode is written only while the session key is defined.
KeySelection == []KeySelectionState /\ [][KeySelectionStep]_vars

\* The device-info request was written and got no reply; the pairing request
\* that followed found no session key and none of it was written.
KeySelectionWitness ==
    \E m \in 1..(Len(sent) - 1) :
        /\ sent[m].msg.code = FUN_SENDER_DEVICE_INFO
        /\ sent[m].msg.parts # <<>> /\ FullyWritten(m)
        /\ sent[m + 1].msg.code = FUN_SENDER_PAIR
        /\ sent[m + 1].ep = sent[m].ep
        /\ sent[m + 1].msg.key = NoKey /\ session_key = NoKey
        /\ \A p \in 1..Len(wire) : wire[p].m # m + 1
        /\ returned.op = "connect" /\ returned.ret = "TypeError"
        /\ returned.m = m + 1

\* disconnect() has returned and no call is running.
DisconnectCompleted ==
    /\ returned.op = "disconnect" /\ returned.ret = "ok"
    /\ \A t \in UserTasks : task[t].pc = "idle"

\* C13: when disconnect() has closed the connection and returns, the
\* session key is undefined and is_paired is false.
SessionEndsWithDisconnect ==
    [][\A t \in UserTasks :
           CloseDone(t) => (session_key' = NoKey /\ ~is_paired')]_vars

\* C14: when disconnect() has closed the connection and returns, the pending
\* map is empty and no caller is blocked awaiting a response.
DisconnectCancelsPending ==
    [][\A t \in UserTasks :
           CloseDone(t) =>
               /\ pending' = EmptyMap
               /\ \A u \in UserTasks : task'[u].pc # "await_resp"]_vars

\* C15: whenever the connection of a connected device ends, the disconnected
\* callbacks are fired once.
DisconnectedCallbacksFire ==
    [][(link # 0 /\ link' = 0) =>
           disconnected_fired' = disconnected_fired + 1]_vars

\* C16: a connect() called after disconnect() has closed a connection
\* creates a client and opens the transport.
ConnectAfterDisconnect ==
    [][\A t \in UserTasks :
           (Connect(t) /\ DisconnectCompleted /\ device_info # <<>>
               /\ clients > 0 /\ link = 0) =>
               (clients' = clients + 1 /\ task'[t].pc = "connecting")]_vars

\* The pair replies of a device: the three result values and a body of two
\* bytes.
PairValues == {0, 1, 2}
LongPairReply == Msg(5, FUN_SENDER_PAIR, <<0, 0>>)

PairReplyState ==
    /\ \A v \in PairValues, r \in ResponseTos :
           CanDeliver(PairReply(v)) =>
               LET s2 == Delivered(PairReply(v), 7, r)
               IN /\ s2.is_paired = (v \in {0, 2})
                  /\ (r # 0 /\ r \in DOMAIN pending) =>
                         /\ r \notin DOMAIN s2.pending
                         /\ s2.fut[pending[r]] =
                                IF v \in {0, 2} THEN [st |-> "ok", code |-> 0]
                                ELSE [st |-> "error", code |-> v]
    /\ \A r \in ResponseTos :
           CanDeliver(LongPairReply) =>
               LET s2 == Delivered(LongPairReply, 7, r)
               IN /\ s2.is_paired = is_paired
                  /\ s2.pending = pending
                  /\ s2.fut = fut

\* The task t resumes in _ensure_connected with the future of its pairing
\* request resolved with an error.
PairErrorObserved(t) ==
    /\ task[t].stage = "pair"
    /\ task[t].m \in DOMAIN fut
    /\ fut[task[t].m].st = "error"
    /\ \/ ResponseReady(t)
       \/ WriteDone(t) /\ task[t].next = Len(sent[task[t].m].msg.parts)

PairReplyStep ==
    \A t \in UserTasks :
        PairErrorObserved(t) =>
            /\ returned' = [t |-> t, op |-> task[t].op, ids |-> task[t].ids,
                            m |-> task[t].m, ret |-> "DeviceError",
                            retcode |-> fut[task[t].m].code]
            /\ connected_fired' = connected_fired
            /\ client' = 0

\* C17: a 1-byte pair reply of 0 or 2 sets is_paired and resolves the future
\* it answers with success; any other value clears is_paired and resolves it
\* with a device error of that value, which the connecting call raises
\* without firing the connected callbacks; a pair reply that is not 1 byte
\* long changes neither is_paired nor the pending futures.
PairReplyHandled == []PairReplyState /\ [][PairReplyStep]_vars

\* connect() was refused by the device: its pairing request was answered
\* with 1.
PairReplyHandledWitness ==
    /\ returned.op = "connect" /\ returned.ret = "DeviceError"
    /\ returned.retcode = 1
    /\ sent[returned.m].msg.code = FUN_SENDER_PAIR
    /\ FullyWritten(returned.m)
    /\ ~is_paired /\ connected_fired = 0 /\ client = 0

\* The reassembler is as __init__ and _clean_input leave it.
InputClean ==
    /\ input_buffer = PyNone
    /\ input_expected_packet_num = 0
    /\ input_expected_length = 0

\* The packets of the buffer arrive (have arrived) complete and in order.
InOrder == fed \o feed = DevicePackets(original)

\* C18: fed with the packets of a buffer in order, the reassembler hands the
\* codec nothing before the last packet and exactly the original buffer at
\* the last packet, after which its state is the initial one; a buffer of 45
\* bytes makes three packets with the payloads [0,17), [17,36), [36,45).
FragmentRoundTrip ==
    InOrder =>
        /\ feed # <<>> =>
               handed = <<>> /\ input_expected_packet_num = Len(fed)
        /\ feed = <<>> => handed = <<original>> /\ InputClean
        /\ Len(original) = 45 =>
               fed \o feed = << <<0, 45, 48>> \o SubSeq(original, 1, 17),
                               <<1>> \o SubSeq(original, 18, 36),
                               <<2>> \o SubSeq(original, 37, 45) >>

\* The three packets of a 45-byte buffer were delivered and the buffer was
\* handed over.
FragmentRoundTripWitness ==
    /\ Len(original) = 45
    /\ InOrder /\ feed = <<>> /\ Len(fed) = 3
    /\ handed = <<original>>

\* One packet of a buffer of several packets is lost, or two are swapped.
Damaged ==
    /\ Len(DevicePackets(original)) > 1
    /\ fed \o feed \in DropOne(DevicePackets(original))
                        \cup SwapTwo(DevicePackets(original))

\* The packet number of a packet.
PacketNum(data) == UnpackInt(data, 0).result

\* The next notification is a packet with a readable packet number.
PacketArrives == feed # <<>> /\ UnpackInt(Head(feed), 0).err = "none"

GapResets ==
    (PacketArrives /\ PacketNum(Head(feed)) > input_expected_packet_num) =>
        /\ input_buffer' = PyNone
        /\ input_expected_packet_num' = 0
        /\ input_expected_length' = 0
        /\ handed' = handed

\* C19: when one packet of a buffer of several packets is lost, or two are
\* swapped, nothing is handed to the codec; a packet whose number is greater
\* than the expected one resets the reassembler and is dropped.
DamagedYieldsNothing == [](Damaged => handed = <<>>) /\ [][GapResets]_vars

\* C19 as stated: after such a sequence of packets the reassembler has been
\* reset.
DamagedResets == (Damaged /\ feed = <<>>) => InputClean

\* The middle packet of three was lost: the last one found a gap.
DamagedYieldsNothingWitness ==
    /\ Len(DevicePackets(original)) = 3
    /\ fed = <<DevicePackets(original)[1], DevicePackets(original)[3]>>
    /\ feed = <<>>
    /\ handed = <<>> /\ InputClean

\* C20: a packet whose number is less than the expected one resets the
\* reassembler and is discarded: it starts no message.
StalePacketDiscarded ==
    [][(PacketArrives /\ PacketNum(Head(feed)) < input_expected_packet_num) =>
           /\ input_buffer' = PyNone
           /\ input_expected_packet_num' = 0
           /\ handed' = handed]_vars

\* C21: when a notification is rejected with a format error the reassembler
\* is reset: no buffer, expected packet number 0, expected length 0.
FramerErrorResets ==
    [][(feed # <<>> /\ UnpackInt(Head(feed), 0).err # "none") =>
           (input_buffer' = PyNone
            /\ input_expected_packet_num' = 0
            /\ input_expected_length' = 0)]_vars

\* _handle_command_or_response ran on msg to its end, without an exception.
Handled(msg, n) == Dispatch(Cur, n, msg.code, msg.data).err = "none"

\* The body of the reply to msg, for the four datapoint messages.
ReplyBodyOf(msg) ==
    IF msg.code \in {FUN_RECEIVE_SIGN_DP, FUN_RECEIVE_SIGN_TIME_DP}
    THEN <<msg.data[1], msg.data[2], msg.data[3], 0>>
    ELSE <<>>

\* A handled message of the device starts one reply with its opcode, its
\* sequence number as response_to and the body of its form; nothing is sent
\* or registered by the handler itself.
ReplyStarted ==
    \A msg \in DeviceReports, n \in DeviceSeqNums :
        (Deliver(msg, n, 0) /\ Handled(msg, n)) =>
            /\ \E r \in ReplyTasks :
                   /\ task[r].pc = "free"
                   /\ task'[r].pc = "spawned"
                   /\ task'[r].code = msg.code
                   /\ task'[r].rto = n
                   /\ msg.code \notin {FUN_RECEIVE_TIME1_REQ, FUN_RECEIVE_TIME2_REQ}
                          => task'[r].body = ReplyBodyOf(msg)
                   /\ \A q \in Tasks \ {r} : task'[q] = task[q]
            /\ sent' = sent
            /\ pending' = pending

\* The reply, run while connected, is one message: its opcode, response_to
\* and body are those it was started with, its sequence number is taken from
\* the outbound counter, and no future is registered for it.
ReplySent ==
    \A t \in ReplyTasks :
        (ReplyRun(t) /\ IsConnected(Cur)) =>
            /\ Len(sent') = Len(sent) + 1
            /\ SubSeq(sent', 1, Len(sent)) = sent
            /\ sent'[Len(sent')].msg.code = task[t].code
            /\ sent'[Len(sent')].msg.rto = task[t].rto
            /\ sent'[Len(sent')].msg.body = task[t].body
            /\ sent'[Len(sent')].msg.seq = current_seq_num
            /\ current_seq_num' = current_seq_num + 1
            /\ ~sent'[Len(sent')].awaited
            /\ pending' = pending
            /\ fut' = fut

\* Nothing else is sent: a message enters the log only when a started reply
\* runs, and a message that was not handled starts none.
OnlyReplies ==
    /\ sent' # sent =>
           \E t \in ReplyTasks : task[t].pc = "spawned" /\ task'[t].pc # "spawned"
    /\ \A msg \in DeviceReports, n \in DeviceSeqNums :
           (Deliver(msg, n, 0) /\ ~Handled(msg, n)) => task' = task

\* C22: every message of the device that is handled while connected gets
\* exactly one reply: same opcode, response_to the sequence number of the
\* device's message, its own sequence number from the outbound counter, no
\* pending future; the body is empty for RECEIVE_DP and RECEIVE_TIME_DP and
\* (dp_seq, flags, 0) for the SIGN forms.
OneReplyPerMessage == [][ReplyStarted /\ ReplySent /\ OnlyReplies]_vars

\* The replies to a SIGN_DP and to a TIME_DP message are on the wire.
OneReplyPerMessageWitness ==
    \E m1, m2 \in 1..Len(sent) :
        /\ sent[m1].msg.code = FUN_RECEIVE_SIGN_DP
        /\ sent[m1].msg.body = <<0, 5, 2, 0>>
        /\ sent[m1].msg.rto \in DeviceSeqNums
        /\ sent[m2].msg.code = FUN_RECEIVE_TIME_DP
        /\ sent[m2].msg.body = <<>>
        /\ sent[m2].msg.seq = sent[m1].msg.seq + 1
        /\ FullyWritten(m1) /\ FullyWritten(m2)
        /\ pending = EmptyMap

\* The ids of the tuples (id, type, len, value[len]) that lie in data from
\* pos to its end, in their order.
RECURSIVE TupleIds(_, _)
TupleIds(data, pos) ==
    IF Len(data) - pos >= 3
    THEN <<data[pos + 1]>> \o TupleIds(data, pos + 3 + data[pos + 3])
    ELSE <<>>

\* The tuples of data from pos to its end fill it exactly, each with a type
\* that exists.
RECURSIVE WellFormed(_, _)
WellFormed(data, pos) ==
    IF pos = Len(data) THEN TRUE
    ELSE /\ Len(data) - pos >= 3
         /\ data[pos + 2] <= DT_BITMAP
         /\ pos + 3 + data[pos + 3] <= Len(data)
         /\ WellFormed(data, pos + 3 + data[pos + 3])

\* The ids a callback was called with.
IdsOf(args) == [i \in 1..Len(args) |-> args[i].id]

\* C23: the datapoints a RECEIVE_SIGN_DP message updates are the tuples
\* that follow its 3-byte prefix (dp-seq, flags), each stored with the flags
\* of the message; no other datapoint is touched.
SignDpAfterPrefix ==
    [][\A msg \in DeviceReports, n \in DeviceSeqNums :
           (Deliver(msg, n, 0) /\ msg.code = FUN_RECEIVE_SIGN_DP
            /\ Handled(msg, n)) =>
               /\ IdsOf(dp_callbacks'[Len(dp_callbacks')]) = TupleIds(msg.data, 3)
               /\ \A id \in DOMAIN datapoints' :
                      IF InList(TupleIds(msg.data, 3), id)
                      THEN datapoints'[id].flags = msg.data[3]
                      ELSE id \in DOMAIN datapoints
                           /\ datapoints'[id] = datapoints[id]]_vars

\* Where the timestamp of a timestamp-bearing message starts.
TimestampPos(msg) == IF msg.code = FUN_RECEIVE_TIME_DP THEN 0 ELSE 3

\* C24: every datapoint updated by a RECEIVE_TIME_DP or a
\* RECEIVE_SIGN_TIME_DP message has the timestamp the message carries.
DeviceTimestampStored ==
    [][\A msg \in DeviceReports, n \in DeviceSeqNums :
           (Deliver(msg, n, 0) /\ Handled(msg, n)
            /\ msg.code \in {FUN_RECEIVE_TIME_DP, FUN_RECEIVE_SIGN_TIME_DP}) =>
               \A id \in DOMAIN datapoints' :
                   InList(IdsOf(dp_callbacks'[Len(dp_callbacks')]), id) =>
                       datapoints'[id].timestamp =
                           ParseTimestamp(msg.data, TimestampPos(msg)).timestamp]_vars

\* C25: every tuple of a well-formed datapoint block is consumed, a tuple of
\* length 0 at its end included.
EveryTupleConsumed ==
    [][\A msg \in DeviceReports, n \in DeviceSeqNums :
           (Deliver(msg, n, 0) /\ msg.code = FUN_RECEIVE_DP
            /\ WellFormed(msg.data, 0)) =>
               /\ Handled(msg, n)
               /\ IdsOf(dp_callbacks'[Len(dp_callbacks')]) = TupleIds(msg.data, 0)
               /\ \A i \in 1..Len(TupleIds(msg.data, 0)) :
                      TupleIds(msg.data, 0)[i] \in DOMAIN datapoints']_vars

\* Where _handle_command_or_response has the datapoints of msg start.
StartPos(msg) ==
    CASE msg.code = FUN_RECEIVE_DP -> 0
      [] msg.code = FUN_RECEIVE_SIGN_DP -> 2
      [] msg.code = FUN_RECEIVE_TIME_DP -> ParseTimestamp(msg.data, 0).pos
      [] msg.code = FUN_RECEIVE_SIGN_TIME_DP -> ParseTimestamp(msg.data, 3).pos

DatapointCodes ==
    {FUN_RECEIVE_DP, FUN_RECEIVE_SIGN_DP, FUN_RECEIVE_TIME_DP,
     FUN_RECEIVE_SIGN_TIME_DP}

\* A handled datapoint message calls the callbacks once, with the
\* datapoints its parse updated, in the order of the payload, as they are in
\* the collection after the message.
CalledOnce ==
    \A msg \in DeviceReports, n \in DeviceSeqNums :
        (Deliver(msg, n, 0) /\ Handled(msg, n)
         /\ msg.code \in DatapointCodes) =>
            dp_callbacks' =
                Append(dp_callbacks,
                       CallbackArgs(datapoints',
                           ParseDatapointsV3(datapoints, 0, 0, msg.data,
                                             StartPos(msg)).list))

\* The callbacks are called by nothing else.
CalledOnlyThen ==
    dp_callbacks' # dp_callbacks =>
        \E msg \in DeviceReports, n \in DeviceSeqNums :
            Deliver(msg, n, 0) /\ Handled(msg, n) /\ msg.code \in DatapointCodes

TypeStable ==
    [][\A id \in DOMAIN datapoints :
           id \in DOMAIN datapoints'
           /\ datapoints'[id].type = datapoints[id].type]_vars

\* msg reports, with the bytes that were written, the one datapoint that the
\* caller wrote last: a SENDER_DPS message with this body is on the wire and
\* the datapoint still holds the value written.
IsEcho(msg) ==
    /\ msg.code = FUN_RECEIVE_DP
    /\ msg.data[1] \in DOMAIN datapoints
    /\ ~datapoints[msg.data[1]].changed_by_device
    /\ \E m \in 1..Len(sent) :
           /\ sent[m].msg.code = FUN_SENDER_DPS
           /\ sent[m].msg.body = msg.data
           /\ FullyWritten(m)
           /\ sent[m].msg.body[4] = datapoints[msg.data[1]].value.v

\* C28: changed_by_device is false after the device echoes the value the
\* user wrote last, and false after a set by the user.
EchoIsNoChange ==
    [][/\ \A msg \in EnumReports, n \in DeviceSeqNums :
              (Deliver(msg, n, 0) /\ IsEcho(msg)) =>
                  ~datapoints'[msg.data[1]].changed_by_device
       /\ \A t \in BatchCallers, id \in DOMAIN datapoints, v \in ReportValues :
              (SetValue(t, id, v) /\ returned'.ret # "EnumValueError") =>
                  ~datapoints'[id].changed_by_device]_vars

\* C29: a negative value assigned to an ENUM datapoint raises the
\* enum-value error and changes nothing: the datapoints, the buffer of the
\* batch and the sequence counter stay, and nothing is sent.
NegativeEnumRejected ==
    [][\A t \in BatchCallers, id \in DOMAIN datapoints :
           (SetValue(t, id, PyInt(-1)) /\ datapoints[id].type = DT_ENUM) =>
               /\ returned'.op = "set_value"
               /\ returned'.ret = "EnumValueError"
               /\ datapoints' = datapoints
               /\ updated_datapoints' = updated_datapoints
               /\ update_started' = update_started
               /\ current_seq_num' = current_seq_num
               /\ sent' = sent
               /\ wire' = wire
               /\ pending' = pending]_vars

\* The assignment was refused inside a batch that has an id in its buffer.
NegativeEnumRejectedWitness ==
    /\ returned.op = "set_value"
    /\ returned.ret = "EnumValueError"
    /\ update_started > 0
    /\ updated_datapoints = <<4>>
    /\ datapoints[4].type = DT_ENUM
    /\ datapoints[4].value = PyInt(200)

\* The smallest of the widths 1, 2 and 4 that holds the unsigned value n.
EnumWidth(n) == IF n > 65535 THEN 4 ELSE IF n > 255 THEN 2 ELSE 1

\* C30: every ENUM datapoint of the collection serializes, to the smallest
\* of the widths 1, 2, 4 that holds its unsigned value.
EnumSerializes ==
    \A id \in DOMAIN datapoints :
        datapoints[id].type = DT_ENUM =>
            /\ ~GetValue(datapoints[id]).err
            /\ datapoints[id].value.v >= 0
            /\ Len(GetValue(datapoints[id]).b) = EnumWidth(datapoints[id].value.v)
            /\ FromBytesBig(GetValue(datapoints[id]).b) = datapoints[id].value.v

\* C31: the function returned by a registration removes the callback; called
\* again it raises nothing and leaves the callback lists as they are.
UnregisterIdempotent ==
    [][\A i \in 1..Len(removers) :
           CallRemover(i) =>
               /\ returned'.ret = "ok"
               /\ removers[i].called => callbacks' = callbacks
               /\ ~removers[i].called =>
                      callbacks'[removers[i].kind] =
                          ListRemove(callbacks[removers[i].kind], removers[i].cb)]_vars

\* C32: the body of every pair request is exactly 44 bytes: the uuid, the
\* first 6 bytes of the local key, the device id, and zeros after them.
PairBodyIs44 ==
    \A m \in 1..Len(sent) :
        sent[m].msg.code = FUN_SENDER_PAIR =>
            /\ Len(sent[m].msg.body) = 44
            /\ \E n \in 0..44 :
                   sent[m].msg.body =
                       device_info[1].uuid \o Prefix(device_info[1].local_key, 6)
                       \o device_info[1].device_id \o Zeros(n)

\* C33: every packet the loop of _build_packets has made is at most
\* GATT_MTU bytes long with its header, the packets are numbered 0, 1, 2, ...
\* in the order they are made, and each carries at least one byte of the
\* encrypted message.
PacketsFitMtu ==
    codec.fn \in {"build", "built"} =>
        \A i \in 1..Len(codec.packets) :
            LET packet == codec.packets[i]
                header == PacketHeader(i - 1, codec.length, codec.version)
            IN /\ Len(packet) <= GATT_MTU
               /\ UnpackInt(packet, 0).err = "none"
               /\ UnpackInt(packet, 0).result = i - 1
               /\ SubSeq(packet, 1, Len(header)) = header
               /\ Len(packet) > Len(header)

\* A message has been cut whole into more than 129 packets, and the packet
\* numbered 129, whose number takes two bytes, is GATT_MTU bytes long.
PacketsFitMtuWitness ==
    /\ codec.fn = "built"
    /\ Len(codec.packets) > 129
    /\ Len(PackInt(129)) = 2
    /\ Len(codec.packets[130]) = GATT_MTU

\* The length of the padded plaintext of the message being encoded.
PlainLen == 16 * ((12 + Len(codec.data) + 2 + 15) \div 16)

\* C34: the encoded buffer is the security flag, the iv and the cipher text
\* of header || body || CRC, zero-padded to a multiple of 16 bytes; decoding
\* it under the same keys gives back seq_num, response_to, opcode and body;
\* and a buffer whose data or CRC was damaged is refused with a CRC error.
CodecRoundTrip ==
    /\ codec.fn \in {"encoded", "decoded"} /\ ~codec.damaged =>
           LET key == SelectKey(codec, codec.code).key
               raw == CbcDecrypt(key, codec.iv, Slice(codec.buffer, 17,
                                                      Len(codec.buffer)))
               plain == RawPacket(codec.seq_num, codec.response_to, codec.code,
                                  codec.data)
           IN /\ Len(codec.buffer) = 17 + PlainLen
              /\ Len(raw) % 16 = 0
              /\ raw = plain \o BigEndian(CalcCrc16(plain), 2)
                           \o Zeros(PlainLen - Len(plain) - 2)
    /\ codec.fn = "decoded" /\ ~codec.damaged =>
           codec.parsed = [err |-> "none", seq_num |-> codec.seq_num,
                           response_to |-> codec.response_to,
                           code |-> codec.code, data |-> codec.data]
    /\ codec.fn = "decoded" /\ codec.damaged =>
           codec.parsed.err = "TuyaBLEDataCRCError"

\* A message whose plaintext needed padding has been encoded and decoded.
CodecRoundTripWitness ==
    /\ codec.fn = "decoded"
    /\ ~codec.damaged
    /\ Len(codec.data) = 3
    /\ Len(codec.buffer) = 17 + 32
    /\ codec.parsed.err = "none"
    /\ codec.parsed.data = codec.data

\* "1700000000000" followed by struct.pack(">h", -100).
Time1BodyMinus100 ==
    <<49, 55, 48, 48, 48, 48, 48, 48, 48, 48, 48, 48, 48>> \o <<255, 156>>

\* C35: in a UTC+01:00 zone at 1700000000.000 a RECEIVE_TIME1_REQ with
\* sequence number n starts a reply with the opcode of the request,
\* response_to n and the body "1700000000000" followed by i16(-100), and that
\* is the body every TIME1 reply is sent with.
Time1ReplyBody ==
    /\ [](\A i \in 1..Len(sent) :
              sent[i].msg.code = FUN_RECEIVE_TIME1_REQ =>
                  sent[i].msg.body = Time1BodyMinus100)
    /\ [][\A n \in DeviceSeqNums :
              Deliver(Msg(5, FUN_RECEIVE_TIME1_REQ, <<>>), n, 0) =>
                  \E r \in ReplyTasks :
                      /\ task[r].pc = "free"
                      /\ task'[r].pc = "spawned"
                      /\ task'[r].code = FUN_RECEIVE_TIME1_REQ
                      /\ task'[r].rto = n
                      /\ task'[r].body = Time1BodyMinus100]_vars

\* C36: _unpack_int(_pack_int(v)) returns v and the position just past the
\* encoding for every value whose encoding takes at most 5 bytes, and a
\* varint cut off by the end of the data raises a format error.
VarintRoundTrip ==
    /\ (codec.fn = "unpacked" /\ ~codec.cut
            /\ Len(PackInt(codec.value)) <= 5) =>
           codec.unpacked = [err |-> "none", result |-> codec.value,
                             pos |-> codec.start_pos + Len(PackInt(codec.value))]
    /\ codec.fn = "unpacked" /\ codec.cut =>
           codec.unpacked.err = "FormatError"

\* C37: no dirty id is discarded unsent: an id leaves the buffer of updated
\* datapoints only when a SENDER_DPS message that lists it has been built,
\* also when it was set while the end_update of another caller was awaiting
\* its flush.
NoDirtyIdDiscarded ==
    [][\A id \in DOMAIN UserDatapoints :
           (InList(updated_datapoints, id) /\ ~InList(updated_datapoints', id)) =>
               \E i \in 1..Len(sent') :
                   /\ sent'[i].msg.code = FUN_SENDER_DPS
                   /\ InList(BodyIds(sent'[i].msg.body), id)]_vars

\* C38: the pending map holds an entry only while a caller is awaiting that
\* response: every entry is the message of a call that is still running, so
\* when an awaited send has finished (by response, device error, timeout or
\* an error raised while its packets were written) its entry is gone.
PendingOnlyWhileAwaited ==
    \A r \in DOMAIN pending :
        \E t \in UserTasks : task[t].pc # "idle" /\ task[t].m = pending[r]

\* C39: a packet of a SENDER_DPS or DEVICE_STATUS message is written to the
\* transport only while is_paired is true, whatever the outcome of the
\* connect the request triggered, a pairing request without a reply
\* included.
RequestsOnlyWhenPaired ==
    [][(Len(wire') = Len(wire) + 1
           /\ sent'[wire'[Len(wire')].m].msg.code
                  \in {FUN_SENDER_DPS, FUN_SENDER_DEVICE_STATUS})
          => is_paired /\ is_paired']_vars

\* The task in slot t is running: called or spawned, and not yet returned.
Running(t) == task[t].pc \notin {"idle", "free"}

\* The locks are taken in one order and given back: a task that waits for
\* the connect lock does not hold or wait for the operation lock, the
\* operation lock is held only while packets are written, a task that has
\* returned holds no lock and waits for none, the head of each lock is a
\* running task, and a task that awaits a response has a future.
LockDiscipline ==
    /\ \A t \in Tasks :
           /\ task[t].pc = "cl_wait" => ~InList(operation_lock, t)
           /\ ~Running(t) => ~InList(operation_lock, t) /\ ~InList(connect_lock, t)
           /\ task[t].pc = "op_wait" => InList(operation_lock, t)
           /\ task[t].pc = "cl_wait" => InList(connect_lock, t)
           /\ task[t].pc = "await_resp" => task[t].m \in DOMAIN fut
    /\ operation_lock # <<>> =>
           task[Head(operation_lock)].pc \in {"writing", "op_wait"}
    /\ connect_lock # <<>> => Running(Head(connect_lock))

\* Every running task returns, as far as the bound on the messages of one
\* behaviour lets it send.
EveryTaskReturns ==
    \A t \in UserTasks :
        Running(t) ~> (~Running(t) \/ Len(sent) >= MaxMsgs)

====
